---- MODULE Spec2Model ----
(***************************************************************************)
(* A model of Pilot, the terminal coding agent: the retry policy of the    *)
(* LLM clients (doWithRetry), the path guard of the file tools             *)
(* (ValidatePath), and the agent's turn loop with its tool dispatch,       *)
(* confirmations, checkpoints and rewinds (Agent.Run, executeToolCalls,    *)
(* CreateCheckpoint, RewindCode, RewindConversation, RewindAll), the       *)
(* compaction gate, the session file, and the stream accumulator           *)
(* (AccumulateStream).                                                     *)
(*                                                                         *)
(* Conventions.  An optional value (a *string, a []byte that may be nil)   *)
(* is a sequence of length 0 or 1: <<>> is absent, <<"x">> is present.     *)
(* Durations are milliseconds.  A path is a record [abs, parts]: whether   *)
(* it is absolute, and its components.                                     *)
(***************************************************************************)
EXTENDS Integers, Sequences, FiniteSets, TLC

VARIABLES
    \* ---- doWithRetry (one call) ----
    rPhase,        \* "request" | "backoff" | "done"
    attempt,       \* the loop variable of doWithRetry
    retryAfterOverride, \* the one-shot override taken from a Retry-After header (0: none)
    lastStatus,    \* the last HTTP error status seen
    rOutcome,      \* what doWithRetry returned: [kind, status, attempt]
    requests,      \* number of doReq calls made so far
    lastResp,      \* the response of the latest doReq: [kind, status, header]
    waited,        \* the delay of the latest backoff wait: [delay, jitter]
    allTransient,  \* every response so far was a 429 or a 5xx
    ctxErr,        \* ctx.Err(): "" until the context is cancelled
    rCause,        \* what the returned error unwraps to ("" if it wraps nothing)
    lastHttpStatus,\* ghost: the status of the latest HTTP response (0: none yet)
    \* ---- ValidatePath (one call of a file tool) ----
    vpPhase,       \* "input" | "validated"
    vpReq,         \* the requested path
    vpRes,         \* what ValidatePath returned: [ok, path]
    \* ---- the agent and its REPL ----
    pc,            \* where the REPL / Run is: "idle" | "compact" | "stream" | "par" | "seq" | "confirm" | "crashed"
    messages,      \* a.messages as a Go slice: [arr: its backing array, len: its length]
    lastTokensUsed,\* a.lastTokensUsed
    checkpoints,   \* a.checkpoints
    fileOriginals, \* a.fileOriginals: path string -> FileSnapshot
    tasks,         \* a.tasks: the status of task 1..n
    disk,          \* the file system: file -> optional bytes
    shellRuns,     \* number of shell commands the bash closure has started
    cancelled,     \* opCtx.Err() != nil
    iteration,     \* the loop variable of Run
    calls,         \* resp.Message.ToolCalls of the batch being executed
    results,       \* the results slice of executeToolCalls
    done,          \* parallel path: the calls whose result is in
    pos,           \* sequential path: the index of the call being processed
    confirm,       \* the NeedsConfirmation awaiting the user's answer
    outcome,       \* what the latest Run returned
    turns,         \* number of user inputs so far
    responses,     \* number of streamed LLM responses so far
    llmCalls,      \* number of StreamMessage calls of the current turn
    tasksAtDispatch, \* ghost: the task list when the current batch was dispatched
    diskAt,        \* ghost: the file system as it was when each checkpoint was created
    sendCalled,    \* ghost: the latest step called client.SendMessage (the summarization request)
    \* ---- SaveSession / ResumeSession (one session file) ----
    sPhase,        \* "running" | "saved" | "resumed" | "failed"
    sMessages,     \* a.messages of the agent that saves; a body is a sequence of bytes here
    sFile,         \* the session file: <<>> if there is none, else <<its JSON document>>
    sResumed,      \* a.messages of the fresh agent after ResumeSession
    \* ---- compactIfNeeded (one call) ----
    gPhase,        \* "input" | "called" | "returned"
    gWindow,       \* a.contextWindow
    gUsed,         \* a.lastTokensUsed
    gMessages,     \* a.messages when compactIfNeeded is called
    gAfter,        \* a.messages when it has returned
    gSends,        \* number of client.SendMessage calls it made
    \* ---- AccumulateStream (one call) ----
    aPhase,        \* "reading" | "returned" | "failed"
    aEvents,       \* ghost: the events received from the channel so far
    aContent,      \* content (the strings.Builder)
    aToolCalls,    \* toolCalls: index -> optional ToolCall
    aUsage,        \* usage
    aFinish,       \* finishReason
    aResp,         \* what AccumulateStream returned: <<>> while reading, else <<[Response, Err]>>
    \* ---- runExplore (one call) ----
    ePhase,        \* "send" | "tools" | "returned"
    eIteration,    \* the loop variable of runExplore
    eLen,          \* len(messages) of the sub-agent
    eCalls,        \* resp.Message.ToolCalls of the response being executed
    eOutputs,      \* the outputs slice
    eDone,         \* the goroutines that have finished
    eResult,       \* what runExplore returned: <<>> while it runs, else <<[output, err]>>
    eSends,        \* ghost: number of client.SendMessage calls made
    eLast,         \* ghost: the latest response of the sub-agent's LLM
    eConfirms,     \* ghost: number of NeedsConfirmation values the registry returned
    \* ---- AtomicWrite (calls on one target path) ----
    wPc,           \* "idle" | "write" | "close" | "chmod" | "rename" | "returned"
    wDir,          \* the directory of the target: file name -> [content, perm]
    wTmpPath,      \* tmpPath
    wContent,      \* the content argument
    wPerm,         \* the perm argument
    wErr,          \* the error returned by the latest call ("" is nil)
    wPre,          \* ghost: the directory when the call was made
    wCalls,        \* ghost: number of calls made
    \* ---- main: the signal goroutine and the input loop ----
    sigCh,         \* number of signals buffered in sigCh (capacity 1)
    runCancel,     \* runCancel != nil
    lastInterrupt, \* <<>> is the zero time.Time, else <<seconds>>
    now,           \* time.Now(), in seconds
    runCtxDone,    \* the latest runCtx has been cancelled
    exited,        \* os.Exit was called
    sigLog,        \* ghost: what the goroutine did for each signal it received
    \* ---- main: the input loop ----
    replPc,        \* "prompt" | "run" | "returned" | "stopped"
    replErr,       \* err of ag.Run: "" (nil) | "error" | "cancelled"
    replLen,       \* len(a.messages)
    replPrinted,   \* what the loop printed since the latest input
    replFile,      \* the session file: <<>> (none), else <<number of messages saved>>
    replSaves,     \* ghost: number of SaveSession calls
    replTurns,     \* ghost: number of turns started
    \* ---- InterruptListener during one turn ----
    ilActive,      \* il.active
    ilRaw,         \* the terminal is in raw mode
    ilStopCh,      \* il.stopCh is closed
    ilLoop,        \* readLoop: "poll" | "read" | "check" | "exited" (il.done is closed)
    ilByte,        \* the byte ReadKeyContext returned
    ilCancelled,   \* il.cancel was called
    stdin,         \* the bytes the terminal holds for readers of os.Stdin
    ilCaller,      \* the goroutine of Run: "running" | "scan" | "resume" | "stopping" | "returned"
    scanned,       \* what fmt.Scanln has read of the answer
    ilApproved,    \* the answers ConfirmAction returned
    ilTaken,       \* ghost: the bytes readLoop has read
    pauses,        \* ghost: number of Pause calls
    resumes,       \* ghost: number of Resume calls
    typed          \* ghost: number of bytes typed

retryVars == <<rPhase, attempt, retryAfterOverride, lastStatus, rOutcome, requests, lastResp, waited,
               allTransient, ctxErr, rCause, lastHttpStatus>>
pathVars == <<vpPhase, vpReq, vpRes>>
sessionVars == <<sPhase, sMessages, sFile, sResumed>>
gateVars == <<gPhase, gWindow, gUsed, gMessages, gAfter, gSends>>
streamVars == <<aPhase, aEvents, aContent, aToolCalls, aUsage, aFinish, aResp>>
listenerVars == <<ilActive, ilRaw, ilStopCh, ilLoop, ilByte, ilCancelled, stdin, ilCaller, scanned,
                  ilApproved, ilTaken, pauses, resumes, typed>>
replVars == <<replPc, replErr, replLen, replPrinted, replFile, replSaves, replTurns>>
signalVars == <<sigCh, runCancel, lastInterrupt, now, runCtxDone, exited, sigLog>>
writeVars == <<wPc, wDir, wTmpPath, wContent, wPerm, wErr, wPre, wCalls>>
exploreVars == <<ePhase, eIteration, eLen, eCalls, eOutputs, eDone, eResult, eSends, eLast, eConfirms>>
auxVars == <<streamVars, exploreVars, writeVars, signalVars, replVars, listenerVars>>
agentVars == <<pc, messages, lastTokensUsed, checkpoints, fileOriginals, tasks, disk, shellRuns,
               cancelled, iteration, calls, results, done, pos, confirm, outcome, turns,
               responses, llmCalls, tasksAtDispatch, diskAt, sendCalled>>

Min(a, b) == IF a < b THEN a ELSE b

RECURSIVE Pow2(_)
Pow2(n) == IF n = 0 THEN 1 ELSE 2 * Pow2(n - 1)

(***************************************************************************)
(* Retry policy                                                            *)
(***************************************************************************)

\* defaultRetryConfig
maxRetries == 5
cfgBaseDelay == 2000
maxDelay == 60000

\* rand.Intn(1000) milliseconds: the extremes and one value between
JitterMs == {0, 500, 999}

\* Retry-After header values a server may send (<<>> is no header)
Digits == <<"0", "1", "2", "3", "4", "5", "6", "7", "8", "9">>
RetryAfterHeaders == { <<>>, <<"0">>, <<"1", "0">>, <<"6", "0">>, <<"1", "2", "0">>, <<"x">> }

DigitValue(c) == CHOOSE d \in 0..9 : Digits[d + 1] = c
IsDigit(c) == \E d \in 1..10 : Digits[d] = c

RECURSIVE Atoi(_, _)
Atoi(s, acc) == IF s = <<>> THEN acc ELSE Atoi(Tail(s), 10 * acc + DigitValue(Head(s)))

\* time.Duration(seconds) * time.Second, 0 if the header is absent or not an integer
parseRetryAfter(resp) ==
    IF resp.header = <<>> THEN 0
    ELSE IF \E i \in 1..Len(resp.header) : ~IsDigit(resp.header[i]) THEN 0
    ELSE Atoi(resp.header, 0) * 1000

\* min(maxDelay, baseDelay * 2^attempt + jitter)
backoffDelay(att, base, max, jitter) ==
    LET delay == base * Pow2(att) + jitter
    IN  IF delay > max THEN max ELSE delay

\* What doReq may return: a transport error, or a response with a status
Responses ==
    {[kind |-> "transport", status |-> 0, header |-> <<>>]}
    \cup {[kind |-> "http", status |-> s, header |-> <<>>] : s \in {200, 400, 401, 403, 404}}
    \cup {[kind |-> "http", status |-> s, header |-> h] : s \in {429, 500}, h \in RetryAfterHeaders}

IsTransient(resp) == resp.kind = "http" /\ (resp.status = 429 \/ resp.status >= 500)

NoOutcome == [kind |-> "none", status |-> 0, attempt |-> 0]
NoResp == [kind |-> "none", status |-> 0, header |-> <<>>]

InitRetry ==
    /\ rPhase = "request"
    /\ attempt = 0
    /\ retryAfterOverride = 0
    /\ lastStatus = 0
    /\ rOutcome = NoOutcome
    /\ requests = 0
    /\ lastResp = NoResp
    /\ waited = [delay |-> 0, jitter |-> 0]
    /\ allTransient = TRUE
    /\ ctxErr = ""
    /\ rCause = ""
    /\ lastHttpStatus = 0

\* if ra := parseRetryAfter(resp); ra > 0 && ra < cfg.maxDelay { retryAfterOverride = ra }
NextOverride(resp, override) ==
    LET ra == parseRetryAfter(resp)
    IN  IF ra > 0 /\ ra < maxDelay THEN ra ELSE override

\* The delay of the wait before attempt att: the schedule, or the override if larger
WaitDelay(att, override, jitter) ==
    LET delay == backoffDelay(att - 1, cfgBaseDelay, maxDelay, jitter)
    IN  IF override > delay THEN override ELSE delay

Return(kind, status) ==
    /\ rPhase' = "done"
    /\ rOutcome' = [kind |-> kind, status |-> status, attempt |-> attempt]
    /\ UNCHANGED attempt

\* if attempt < cfg.maxRetries { continue }
MayRetryOffByOne(att) == att < maxRetries - 1
MayRetry(att) == att < maxRetries

\* `continue`: attempt++ and the loop goes on to the backoff wait
Continue ==
    /\ rPhase' = "backoff"
    /\ attempt' = attempt + 1
    /\ UNCHANGED rOutcome

\* case resp.StatusCode == 401 || resp.StatusCode == 403
IsAuthErrorOnly401(status) == status = 401
IsAuthError(status) == status = 401 \/ status = 403

\* What a context's Err() may be once it is done
CancelCauses == {"context canceled", "context deadline exceeded"}

\* resp, err := doReq() and the switch on the status
DoRequest(resp) ==
    /\ rPhase = "request"
    /\ lastHttpStatus' = IF resp.kind = "http" THEN resp.status ELSE lastHttpStatus
    /\ UNCHANGED <<ctxErr, rCause>>
    /\ requests' = requests + 1
    /\ lastResp' = resp
    /\ allTransient' = (allTransient /\ resp.kind = "http" /\ resp.status \in {429, 500})
    /\ UNCHANGED waited
    /\ IF resp.kind = "transport"
       THEN /\ UNCHANGED <<retryAfterOverride, lastStatus>>
            /\ IF MayRetry(attempt) THEN Continue ELSE Return("transport", 0)
       ELSE IF resp.status >= 200 /\ resp.status < 300
       THEN UNCHANGED <<retryAfterOverride, lastStatus>> /\ Return("success", resp.status)
       ELSE IF IsAuthError(resp.status)
       THEN UNCHANGED <<retryAfterOverride, lastStatus>> /\ Return("auth", resp.status)
       ELSE IF IsTransient(resp)
       THEN /\ lastStatus' = resp.status
            /\ retryAfterOverride' = NextOverride(resp, retryAfterOverride)
            /\ IF MayRetry(attempt) THEN Continue ELSE Return("retryable", resp.status)
       ELSE UNCHANGED <<retryAfterOverride, lastStatus>> /\ Return("api", resp.status)

\* The delay is computed, the override consumed, and time.After(delay) fires
BackoffWait(jitter) ==
    /\ rPhase = "backoff"
    /\ waited' = [delay |-> WaitDelay(attempt, retryAfterOverride, jitter), jitter |-> jitter]
    /\ retryAfterOverride' = 0
    /\ rPhase' = "request"
    /\ UNCHANGED <<attempt, lastStatus, rOutcome, requests, lastResp, allTransient, ctxErr, rCause,
                   lastHttpStatus>>

\* case <-ctx.Done(): a retryCancelledError if an HTTP error was seen, else ctx.Err()
BackoffCancelNoStatus(cause) ==
    /\ rPhase = "backoff"
    /\ rPhase' = "done"
    /\ ctxErr' = cause
    /\ rCause' = cause
    /\ rOutcome' = [kind |-> "cancelled", status |-> 0, attempt |-> attempt]
    /\ retryAfterOverride' = 0
    /\ UNCHANGED <<attempt, lastStatus, requests, lastResp, waited, allTransient, lastHttpStatus>>

BackoffCancel(cause) ==
    /\ rPhase = "backoff"
    /\ rPhase' = "done"
    /\ ctxErr' = cause
    /\ rCause' = cause
    /\ rOutcome' = IF lastStatus > 0
                   THEN [kind |-> "retryCancelled", status |-> lastStatus, attempt |-> attempt]
                   ELSE [kind |-> "cancelled", status |-> 0, attempt |-> attempt]
    /\ retryAfterOverride' = 0
    /\ UNCHANGED <<attempt, lastStatus, requests, lastResp, waited, allTransient, lastHttpStatus>>

(***************************************************************************)
(* Path guard                                                              *)
(***************************************************************************)

\* The working directory /w; /w/link is a symbolic link to /etc
WorkDir == [abs |-> TRUE, parts |-> <<"w">>]
SymlinkAt == <<"w", "link">>
SymlinkTarget == <<"etc">>

MaxPathLen == 3
PathNames == {"a", ".", "..", "..c", "w", "link", "etc"}

RECURSIVE SeqsUpTo(_, _)
SeqsUpTo(S, n) ==
    IF n = 0 THEN {<<>>}
    ELSE LET shorter == SeqsUpTo(S, n - 1)
         IN  shorter \cup {Append(s, x) : s \in shorter, x \in S}

PathInputs == {[abs |-> b, parts |-> p] : b \in BOOLEAN, p \in SeqsUpTo(PathNames, MaxPathLen) \ {<<>>}}

\* filepath.Clean on the components: drop ".", resolve ".." lexically
RECURSIVE CleanParts(_, _, _)
CleanParts(abs, parts, acc) ==
    IF parts = <<>> THEN acc
    ELSE LET c == Head(parts)
             rest == Tail(parts)
         IN  IF c = "." THEN CleanParts(abs, rest, acc)
             ELSE IF c = ".."
             THEN IF acc # <<>> /\ acc[Len(acc)] # ".."
                  THEN CleanParts(abs, rest, SubSeq(acc, 1, Len(acc) - 1))
                  ELSE IF abs THEN CleanParts(abs, rest, acc)
                  ELSE CleanParts(abs, rest, Append(acc, ".."))
             ELSE CleanParts(abs, rest, Append(acc, c))

Clean(p) == [abs |-> p.abs, parts |-> CleanParts(p.abs, p.parts, <<>>)]

\* filepath.Join(dir, p) for a relative p
Join(dir, p) == Clean([abs |-> dir.abs, parts |-> dir.parts \o p.parts])

RECURSIVE CommonPrefixLen(_, _)
CommonPrefixLen(s, t) ==
    IF s = <<>> \/ t = <<>> \/ Head(s) # Head(t) THEN 0
    ELSE 1 + CommonPrefixLen(Tail(s), Tail(t))

\* filepath.Rel(base, targ) for two absolute paths: the components of the result
Rel(base, targ) ==
    LET b == Clean(base).parts
        t == Clean(targ).parts
        k == CommonPrefixLen(b, t)
    IN  [i \in 1..(Len(b) - k) |-> ".."] \o SubSeq(t, k + 1, Len(t))

\* strings.HasPrefix(name, "..")
NameHasDotDotPrefix(name) == name \in {"..", "..c"}

\* strings.HasPrefix(rel, ".."): the first component begins with ".."
HasDotDotPrefix(rel) == rel # <<>> /\ NameHasDotDotPrefix(rel[1])

Rejected == [ok |-> FALSE, path |-> [abs |-> TRUE, parts |-> <<>>]]

ValidatePath(workDir, requestedPath) ==
    IF requestedPath.abs
    THEN IF HasDotDotPrefix(Rel(workDir, requestedPath))
         THEN Rejected
         ELSE [ok |-> TRUE, path |-> Clean(requestedPath)]
    ELSE LET absPath == Join(workDir, requestedPath)
         IN  IF HasDotDotPrefix(Rel(workDir, absPath))
             THEN Rejected
             ELSE [ok |-> TRUE, path |-> absPath]

\* The file an absolute cleaned path names once the OS has followed the link
RealPath(p) ==
    IF Len(p.parts) >= Len(SymlinkAt) /\ SubSeq(p.parts, 1, Len(SymlinkAt)) = SymlinkAt
    THEN [abs |-> TRUE, parts |-> SymlinkTarget \o SubSeq(p.parts, Len(SymlinkAt) + 1, Len(p.parts))]
    ELSE p

IsWithin(dir, p) ==
    /\ Len(p.parts) >= Len(dir.parts)
    /\ SubSeq(p.parts, 1, Len(dir.parts)) = dir.parts

InitPath ==
    /\ vpPhase = "input"
    /\ vpReq = [abs |-> FALSE, parts |-> <<"a">>]
    /\ vpRes = Rejected

\* A file tool is called with a path taken from the model's tool arguments
RequestPath(p) ==
    /\ vpPhase' = "input"
    /\ vpReq' = p
    /\ vpRes' = Rejected

\* absPath, err := ValidatePath(r.workDir, params.Path)
ValidatePathCall ==
    /\ vpPhase = "input"
    /\ vpPhase' = "validated"
    /\ vpRes' = ValidatePath(WorkDir, vpReq)
    /\ UNCHANGED vpReq

(***************************************************************************)
(* Agent: messages, tools, files                                           *)
(***************************************************************************)

MaxIterationsPerTurn == 50
ContextWindow == 128000
CharsPerToken == 4

\* llm.Message; the zero value is what a grown backing array holds past its length
ZeroMessage == [role |-> "", content |-> <<>>, calls |-> <<>>, id |-> ""]
TextMessage(role, content) == [role |-> role, content |-> <<content>>, calls |-> <<>>, id |-> ""]
ToolResultMessage(toolCallID, content) ==
    [role |-> "tool", content |-> <<content>>, calls |-> <<>>, id |-> toolCallID]

\* Message.ContentString
ContentString(m) == IF m.content = <<>> THEN "" ELSE m.content[1]

SystemPrompt == "You are Pilot."
UserInputs == {"do it"}

\* ---- a Go slice of messages: the backing array and the length ----
History(s) == SubSeq(s.arr, 1, s.len)
Cap(s) == Len(s.arr)

\* []llm.Message{m}
SliceOf(m) == [arr |-> <<m>>, len |-> 1]

\* append(s, m): in place while capacity lasts, else a copy into an array of twice the capacity
GoAppend(s, m) ==
    IF s.len < Cap(s)
    THEN [arr |-> [s.arr EXCEPT ![s.len + 1] = m], len |-> s.len + 1]
    ELSE LET newcap == IF Cap(s) = 0 THEN 1 ELSE 2 * Cap(s)
         IN  [arr |-> History(s) \o <<m>> \o [i \in 1..(newcap - s.len - 1) |-> ZeroMessage],
              len |-> s.len + 1]

RECURSIVE GoAppendAll(_, _)
GoAppendAll(s, ms) == IF ms = <<>> THEN s ELSE GoAppendAll(GoAppend(s, Head(ms)), Tail(ms))

\* ---- files ----
\* Path strings the model may pass, and how each splits into components
PathStrings == {"a.txt", "./a.txt", "b.txt", "../x"}
SplitPath(s) ==
    CASE s = "a.txt" -> [abs |-> FALSE, parts |-> <<"a.txt">>]
      [] s = "./a.txt" -> [abs |-> FALSE, parts |-> <<".", "a.txt">>]
      [] s = "b.txt" -> [abs |-> FALSE, parts |-> <<"b.txt">>]
      [] s = "../x" -> [abs |-> FALSE, parts |-> <<"..", "x">>]

\* The files of the working directory the model tracks: a.txt is absent at start, b.txt exists
FileA == <<"w", "a.txt">>
FileB == <<"w", "b.txt">>
DiskFiles == {FileA, FileB}
InitialDisk == [f \in DiskFiles |-> IF f = FileB THEN <<"old">> ELSE <<>>]

\* The file a relative path string names for the process, whose cwd is the working directory
FileOf(path) == Join(WorkDir, SplitPath(path)).parts

\* os.ReadFile(path): <<>> is the error of a missing file
ReadFile(d, f) == IF f \in DOMAIN d THEN d[f] ELSE <<>>
WriteFile(d, f, content) == IF f \in DOMAIN d THEN [d EXCEPT ![f] = <<content>>] ELSE d
Remove(d, f) == IF f \in DOMAIN d THEN [d EXCEPT ![f] = <<>>] ELSE d

\* ---- tool arguments: the JSON texts the LLM may send and what they parse to ----
ArgumentTexts == {"{path:a.txt}", "{path:./a.txt,content:v2}", "{path:a.txt,content:v1}",
                  "{path:b.txt}", "{path:b.txt,old_str:old,new_str:new}", "{path:../x,content:v1}",
                  "{command:make}", "{task:look}", "{task:find}", "{task:look,", "{id:1,status:completed}",
                  "{tasks:[plan]}", "{}"}

\* json.Valid
JSONValid(arguments) == arguments # "{task:look,"

NoParams == [path |-> "", content |-> "", old_str |-> "", new_str |-> "", command |-> "",
             task |-> "", id |-> 0, status |-> "", tasks |-> 0]

\* parseInput / json.Unmarshal into the tool's input struct
parseInput(arguments) ==
    CASE arguments = "{path:a.txt}" -> [NoParams EXCEPT !.path = "a.txt"]
      [] arguments = "{path:b.txt}" -> [NoParams EXCEPT !.path = "b.txt"]
      [] arguments = "{path:./a.txt,content:v2}" -> [NoParams EXCEPT !.path = "./a.txt", !.content = "v2"]
      [] arguments = "{path:a.txt,content:v1}" -> [NoParams EXCEPT !.path = "a.txt", !.content = "v1"]
      [] arguments = "{path:b.txt,old_str:old,new_str:new}" ->
            [NoParams EXCEPT !.path = "b.txt", !.old_str = "old", !.new_str = "new"]
      [] arguments = "{path:../x,content:v1}" -> [NoParams EXCEPT !.path = "../x", !.content = "v1"]
      [] arguments = "{command:make}" -> [NoParams EXCEPT !.command = "make"]
      [] arguments = "{task:look}" -> [NoParams EXCEPT !.task = "look"]
      [] arguments = "{task:find}" -> [NoParams EXCEPT !.task = "find"]
      [] arguments = "{id:1,status:completed}" -> [NoParams EXCEPT !.id = 1, !.status = "completed"]
      [] arguments = "{tasks:[plan]}" -> [NoParams EXCEPT !.tasks = 1]
      [] OTHER -> NoParams

\* ---- the task list (agent/task.go) ----
\* a.tasks as the sequence of the tasks' statuses; task i has ID i
WriteTasks(n) == [i \in 1..n |-> "pending"]

StatusMark(status) ==
    CASE status = "pending" -> "[ ]" [] status = "in_progress" -> "[~]" [] status = "completed" -> "[x]"

CountStatus(t, status) == Cardinality({i \in 1..Len(t) : t[i] = status})

RECURSIVE TaskLines(_, _)
TaskLines(t, i) ==
    IF i > Len(t) THEN ""
    ELSE "  " \o StatusMark(t[i]) \o " " \o ToString(i) \o ". plan\n" \o TaskLines(t, i + 1)

TaskSummary(t) ==
    IF Len(t) = 0 THEN "No tasks."
    ELSE TaskLines(t, 1) \o "\n" \o ToString(Len(t)) \o " tasks (" \o ToString(CountStatus(t, "pending"))
         \o " pending, " \o ToString(CountStatus(t, "in_progress")) \o " in progress, "
         \o ToString(CountStatus(t, "completed")) \o " completed)"

\* UpdateTask: [err, tasks]
UpdateTask(t, id, status) ==
    IF status \notin {"pending", "in_progress", "completed"}
    THEN [err |-> "invalid status", tasks |-> t]
    ELSE IF id \in 1..Len(t)
    THEN [err |-> "", tasks |-> [t EXCEPT ![id] = status]]
    ELSE [err |-> "task " \o ToString(id) \o " not found", tasks |-> t]

\* The task callbacks are wired to the agent's WriteTasks, UpdateTask and TaskSummary
TaskCallbacksConfigured == TRUE

\* ---- the tool handlers (tools/*.go): what Registry.Execute returns ----
\* [output, err, confirm, tasks]: err "" is nil; confirm holds the *NeedsConfirmation if one
\* was returned; tasks is the task list after the call
NoExec == [kind |-> "", file |-> <<>>, content |-> "", n |-> 0]
Ok(output, t) == [output |-> output, err |-> "", confirm |-> <<>>, tasks |-> t]
Fail(err, t) == [output |-> "", err |-> err, confirm |-> <<>>, tasks |-> t]
NeedsConfirmation(tool, path, exec, t) ==
    [output |-> "", err |-> tool \o " requires confirmation for " \o path,
     confirm |-> <<[Tool |-> tool, Path |-> path, Execute |-> exec]>>, tasks |-> t]

\* strings.Count and strings.Replace on the file contents of the model (none contains another)
StringsCount(content, old) == IF content = old THEN 1 ELSE 0
StringsReplace(content, old, new) == IF content = old THEN new ELSE content

\* The sub-agent's scripted LLM: the text of its final message for a task
ExploreAnswer(task) == IF task = "look" THEN "" ELSE "found it"

readTool(p, d, t) ==
    IF p.path = "" THEN Fail("path is required", t)
    ELSE LET v == ValidatePath(WorkDir, SplitPath(p.path))
         IN  IF ~v.ok THEN Fail("path is outside the working directory", t)
             ELSE IF ReadFile(d, v.path.parts) = <<>> THEN Fail("open file", t)
             ELSE IF ReadFile(d, v.path.parts)[1] = "" THEN Ok("File is empty.", t)
             ELSE Ok("   1 | " \o ReadFile(d, v.path.parts)[1] \o "\n", t)

writeTool(p, d, t) ==
    IF p.path = "" THEN Fail("path is required", t)
    ELSE IF p.content = "" THEN Fail("content is required", t)
    ELSE LET v == ValidatePath(WorkDir, SplitPath(p.path))
         IN  IF ~v.ok THEN Fail("path is outside the working directory", t)
             ELSE NeedsConfirmation("write", p.path,
                      [NoExec EXCEPT !.kind = "write", !.file = v.path.parts, !.content = p.content], t)

editTool(p, d, t) ==
    IF p.path = "" THEN Fail("path is required", t)
    ELSE IF p.old_str = "" THEN Fail("old_str is required", t)
    ELSE LET v == ValidatePath(WorkDir, SplitPath(p.path))
         IN  IF ~v.ok THEN Fail("path is outside the working directory", t)
             ELSE IF ReadFile(d, v.path.parts) = <<>> THEN Fail("read file", t)
             ELSE LET content == ReadFile(d, v.path.parts)[1]
                  IN  IF StringsCount(content, p.old_str) = 0 THEN Fail("no match found for old_str", t)
                      ELSE IF StringsCount(content, p.old_str) > 1 THEN Fail("old_str matches several times", t)
                      ELSE NeedsConfirmation("edit", p.path,
                               [NoExec EXCEPT !.kind = "edit", !.file = v.path.parts,
                                              !.content = StringsReplace(content, p.old_str, p.new_str)], t)

bashTool(p, d, t) ==
    IF p.command = "" THEN Fail("command is required", t)
    ELSE NeedsConfirmation("bash", p.command, [NoExec EXCEPT !.kind = "bash"], t)

\* runExplore behind exploreTool: the sub-agent's final text, or its LLM error once cancelled
exploreTool(p, d, t, ctxDone) ==
    IF p.task = "" THEN Fail("task is required", t)
    ELSE IF ctxDone THEN Fail("explore sub-agent LLM error: context canceled", t)
    ELSE Ok(ExploreAnswer(p.task), t)

writeTasksTool(p, d, t) ==
    IF p.tasks = 0 THEN Fail("tasks array is required and must not be empty", t)
    ELSE IF ~TaskCallbacksConfigured THEN Fail("task callbacks not configured", t)
    ELSE NeedsConfirmation("write_tasks", "task plan", [NoExec EXCEPT !.kind = "write_tasks", !.n = p.tasks], t)

updateTaskTool(p, d, t) ==
    IF p.id = 0 THEN Fail("id is required", t)
    ELSE IF p.status = "" THEN Fail("status is required", t)
    ELSE IF ~TaskCallbacksConfigured THEN Fail("task callbacks not configured", t)
    ELSE LET u == UpdateTask(t, p.id, p.status)
         IN  IF u.err # "" THEN Fail(u.err, t) ELSE Ok(TaskSummary(u.tasks), u.tasks)

readTasksTool(p, d, t) ==
    IF ~TaskCallbacksConfigured THEN Fail("task callbacks not configured", t)
    ELSE Ok(TaskSummary(t) \o "\n\n(Note: task state is already in your system prompt. update_task also returns the current list. You rarely need read_tasks.)", t)

\* Registry.Execute
Execute(name, arguments, d, t, ctxDone) ==
    LET p == parseInput(arguments)
    IN  CASE name = "read" -> readTool(p, d, t)
          [] name = "write" -> writeTool(p, d, t)
          [] name = "edit" -> editTool(p, d, t)
          [] name = "bash" -> bashTool(p, d, t)
          [] name = "explore" -> exploreTool(p, d, t, ctxDone)
          [] name = "write_tasks" -> writeTasksTool(p, d, t)
          [] name = "update_task" -> updateTaskTool(p, d, t)
          [] name = "read_tasks" -> readTasksTool(p, d, t)
          [] OTHER -> Fail("unknown tool: " \o name, t)

\* Registry.IsReadOnly
IsReadOnlyWithWriteTasks(name) ==
    name \in {"glob", "grep", "ls", "read", "write_tasks", "update_task", "read_tasks"}
IsReadOnly(name) == name \in {"glob", "grep", "ls", "read", "explore", "update_task", "read_tasks"}

(***************************************************************************)
(* Agent: the turn loop (Agent.Run) and the REPL that drives it            *)
(***************************************************************************)

\* EstimateTokens / EstimateTotalTokens
RECURSIVE SumCallTokens(_)
SumCallTokens(cs) ==
    IF cs = <<>> THEN 0
    ELSE (Len(Head(cs).name) \div CharsPerToken) + (Len(Head(cs).arguments) \div CharsPerToken)
         + SumCallTokens(Tail(cs))

EstimateTokens(m) ==
    LET tokens == (Len(m.role) \div CharsPerToken)
                  + (IF m.content = <<>> THEN 0 ELSE Len(m.content[1]) \div CharsPerToken)
                  + SumCallTokens(m.calls)
    IN  IF tokens < 1 THEN 1 ELSE tokens

\* The sum of EstimateTokens over ms[lo..hi], split in halves to keep the evaluation shallow
RECURSIVE SumTokens(_, _, _)
SumTokens(ms, lo, hi) ==
    IF lo > hi THEN 0
    ELSE IF lo = hi THEN EstimateTokens(ms[lo])
    ELSE LET mid == (lo + hi) \div 2
         IN  SumTokens(ms, lo, mid) + SumTokens(ms, mid + 1, hi)

EstimateTotalTokens(ms) == SumTokens(ms, 1, Len(ms))

\* compactIfNeeded's test; the threshold is int(float64(contextWindow) * (1 - 0.2))
ThresholdOf(window) == (window * 8) \div 10
Threshold == ThresholdOf(ContextWindow)
ShouldCompactInclusive(window, used, ms) ==
    /\ window > 0
    /\ (IF used = 0 THEN EstimateTotalTokens(ms) ELSE used) >= ThresholdOf(window)
ShouldCompact(window, used, ms) ==
    /\ window > 0
    /\ (IF used = 0 THEN EstimateTotalTokens(ms) ELSE used) > ThresholdOf(window)
NeedsCompaction(s, used) == ShouldCompact(ContextWindow, used, History(s))

\* The index of the last user message of the history, 0 if there is none
LastUserIndex(ms) ==
    IF \E i \in 1..Len(ms) : ms[i].role = "user"
    THEN CHOOSE i \in 1..Len(ms) : ms[i].role = "user" /\ \A j \in (i + 1)..Len(ms) : ms[j].role # "user"
    ELSE 0

\* doCompact once SendMessage has returned the summary
CompactedHistoryKeepAll(s, summary) ==
    LET ms == History(s)
        withSummary == IF summary # ""
                       THEN GoAppend(s, TextMessage("user", "[Conversation compacted] Here is a summary of our conversation so far:\n\n" \o summary))
                       ELSE s
    IN  IF LastUserIndex(ms) # 0 THEN GoAppend(withSummary, ms[LastUserIndex(ms)]) ELSE withSummary
CompactedHistory(s, summary) ==
    LET ms == History(s)
        withSummary == IF summary # ""
                       THEN GoAppend(SliceOf(ms[1]), TextMessage("user", "[Conversation compacted] Here is a summary of our conversation so far:\n\n" \o summary))
                       ELSE SliceOf(ms[1])
    IN  IF LastUserIndex(ms) # 0 THEN GoAppend(withSummary, ms[LastUserIndex(ms)]) ELSE withSummary

\* What the summarization call may return: an error, or a summary text
CompactionOutcomes == {"error", "", "summary"}

\* The tool calls of a response, with the ids the provider gave them
CallId(r, i) == "call_" \o ToString(r) \o "_" \o ToString(i)
CallsOf(batch, r) ==
    [i \in 1..Len(batch) |-> [id |-> CallId(r, i), name |-> batch[i].name, arguments |-> batch[i].arguments]]

Call(name, arguments) == [name |-> name, arguments |-> arguments]
Response(finish, content, batch, usage) ==
    [finish |-> finish, content |-> content, batch |-> batch, usage |-> usage]

\* What the LLM may stream back
StopResponses == {
    Response("stop", <<"done">>, <<>>, 0),
    Response("stop", <<"done">>, <<>>, 120000) }

EndResponses == {
    Response("length", <<"cut">>, <<Call("read", "{path:a.txt}")>>, 0),
    Response("tool_calls", <<>>, <<>>, 0) }

ReadResponses == {
    Response("tool_calls", <<>>, <<Call("read", "{path:a.txt}")>>, 0) }

\* A response whose reported usage is above the compaction threshold
LargeResponses == {
    Response("tool_calls", <<>>, <<Call("read", "{path:b.txt}")>>, 120000) }

WriteResponses == {
    Response("tool_calls", <<>>, <<Call("write", "{path:a.txt,content:v1}")>>, 0),
    Response("tool_calls", <<>>, <<Call("write", "{path:./a.txt,content:v2}")>>, 0) }

BatchResponses == {
    Response("tool_calls", <<>>, <<Call("read", "{path:a.txt}"), Call("explore", "{task:look}"),
                                   Call("read", "{task:look,")>>, 0),
    Response("tool_calls", <<>>, <<Call("update_task", "{id:1,status:completed}"),
                                   Call("read_tasks", "{}")>>, 0),
    Response("tool_calls", <<>>, <<Call("write_tasks", "{tasks:[plan]}"), Call("bash", "{command:make}")>>, 0),
    Response("tool_calls", <<>>, <<Call("edit", "{path:b.txt,old_str:old,new_str:new}"),
                                   Call("explore", "{task:find}"), Call("bash", "{command:make}")>>, 0),
    Response("tool_calls", <<>>, <<Call("read", "{path:b.txt}"), Call("write", "{path:../x,content:v1}"),
                                   Call("grep_all", "{}")>>, 0) }

LLMResponses ==
    StopResponses \cup EndResponses \cup LargeResponses \cup WriteResponses \cup BatchResponses

NoConfirm == <<>>
ZeroResult == [id |-> "", output |-> ""]

InitAgent ==
    /\ pc = "idle"
    /\ messages = SliceOf(TextMessage("system", SystemPrompt))
    /\ lastTokensUsed = 0
    /\ checkpoints = <<>>
    /\ diskAt = <<>>
    /\ fileOriginals = [p \in PathStrings |-> <<>>]
    /\ tasks = <<>>
    /\ disk = InitialDisk
    /\ shellRuns = 0
    /\ cancelled = FALSE
    /\ iteration = 0
    /\ calls = <<>>
    /\ results = <<>>
    /\ done = {}
    /\ pos = 0
    /\ confirm = NoConfirm
    /\ outcome = "none"
    /\ turns = 0
    /\ responses = 0
    /\ llmCalls = 0
    /\ tasksAtDispatch = <<>>
    /\ sendCalled = FALSE

\* ---- checkpoints (CreateCheckpoint, captureFileBeforeModification, Rewind*) ----
NotInMap == <<>>
InMap(x) == <<x>>
Keys(m) == {p \in PathStrings : m[p] # NotInMap}

\* CreateCheckpoint: the current disk content of every tracked path, the history length
NewCheckpoint(preview) ==
    [Turn |-> Len(checkpoints) + 1,
     Preview |-> preview,
     MsgIndex |-> messages.len,
     Files |-> [p \in PathStrings |->
                   IF fileOriginals[p] = NotInMap THEN NotInMap ELSE InMap(ReadFile(disk, FileOf(p)))]]

\* captureFileBeforeModification
Captured(originals, path, d) ==
    IF originals[path] # NotInMap THEN originals
    ELSE [originals EXCEPT ![path] =
             InMap([Existed |-> ReadFile(d, FileOf(path)) # <<>>, Content |-> ReadFile(d, FileOf(path))])]

\* The orders in which a range loop may visit the keys of a map
Orders(S) == {o \in [1..Cardinality(S) -> S] : \A i, j \in 1..Cardinality(S) : o[i] = o[j] => i = j}

\* One pass of RewindCode's first loop: os.Remove for a nil content, os.WriteFile otherwise
RECURSIVE RestoreSnapshot(_, _, _)
RestoreSnapshot(d, files, order) ==
    IF order = <<>> THEN d
    ELSE LET path == Head(order)
             content == files[path][1]
         IN  RestoreSnapshot(IF content = <<>> THEN Remove(d, FileOf(path))
                             ELSE WriteFile(d, FileOf(path), content[1]),
                             files, Tail(order))

\* One pass of RewindCode's second loop: back to the pre-session state
RECURSIVE RestoreOriginals(_, _, _)
RestoreOriginals(d, originals, order) ==
    IF order = <<>> THEN d
    ELSE LET path == Head(order)
             snapshot == originals[path][1]
         IN  RestoreOriginals(IF ~snapshot.Existed THEN Remove(d, FileOf(path))
                              ELSE WriteFile(d, FileOf(path), snapshot.Content[1]),
                              originals, Tail(order))

\* RewindCode's effect on the disk, for given iteration orders of the two maps
RewoundDisk(cp, o1, o2) == RestoreOriginals(RestoreSnapshot(disk, cp.Files, o1), fileOriginals, o2)

\* RewindCode's trimmed fileOriginals
TrimmedOriginals(cp) ==
    [p \in PathStrings |-> IF cp.Files[p] # NotInMap THEN fileOriginals[p] ELSE NotInMap]

\* ---- Run ----
\* The bottom of an iteration: iteration++, the loop test and compactIfNeeded's test
\* iteration < MaxIterationsPerTurn
LoopTestInclusive(i) == i <= MaxIterationsPerTurn
LoopTest(i) == i < MaxIterationsPerTurn
LoopAgain(s, used) ==
    IF LoopTest(iteration + 1)
    THEN /\ iteration' = iteration + 1
         /\ pc' = IF NeedsCompaction(s, used) THEN "compact" ELSE "stream"
         /\ outcome' = "none"
    ELSE /\ iteration' = 0
         /\ pc' = "idle"
         /\ outcome' = "agent loop exceeded maximum iterations (" \o ToString(MaxIterationsPerTurn) \o ")"

\* The REPL's default branch: CreateCheckpoint, then Run up to the first LLM call
UserInput(text, maxTurns) ==
    /\ sendCalled' = FALSE
    /\ pc = "idle"
    /\ turns < maxTurns
    /\ turns' = turns + 1
    /\ checkpoints' = Append(checkpoints, NewCheckpoint(text))
    /\ diskAt' = Append(diskAt, disk)
    /\ messages' = GoAppend(messages, TextMessage("user", text))
    /\ cancelled' = FALSE
    /\ iteration' = 0
    /\ llmCalls' = 0
    /\ outcome' = "none"
    /\ pc' = IF NeedsCompaction(messages', lastTokensUsed) THEN "compact" ELSE "stream"
    /\ UNCHANGED <<lastTokensUsed, fileOriginals, tasks, disk, shellRuns, calls, results, done,
                   pos, confirm, responses, tasksAtDispatch>>

\* compactIfNeeded found the history too large: doCompact
CompactStepAbortOnError(out) ==
    /\ sendCalled' = TRUE
    /\ pc = "compact"
    /\ cancelled => out = "error"
    /\ IF out = "error"
       THEN /\ messages' = SliceOf(messages.arr[1])
            /\ pc' = "idle"
            /\ UNCHANGED lastTokensUsed
       ELSE /\ messages' = CompactedHistory(messages, out)
            /\ lastTokensUsed' = 0
            /\ pc' = "stream"
    /\ UNCHANGED <<checkpoints, fileOriginals, tasks, disk, shellRuns, cancelled, iteration, calls,
                   results, done, pos, confirm, outcome, turns, responses, llmCalls, tasksAtDispatch, diskAt>>
CompactStep(out) ==
    /\ sendCalled' = TRUE
    /\ pc = "compact"
    /\ cancelled => out = "error"
    /\ IF out = "error"
       THEN UNCHANGED <<messages, lastTokensUsed>>
       ELSE /\ messages' = CompactedHistory(messages, out)
            /\ lastTokensUsed' = 0
    /\ pc' = "stream"
    /\ UNCHANGED <<checkpoints, fileOriginals, tasks, disk, shellRuns, cancelled, iteration, calls,
                   results, done, pos, confirm, outcome, turns, responses, llmCalls, tasksAtDispatch, diskAt>>

\* StreamMessage or AccumulateStream returned an error
StreamError(kind) ==
    /\ sendCalled' = FALSE
    /\ pc = "stream"
    /\ llmCalls' = llmCalls + 1
    /\ pc' = "idle"
    /\ outcome' = IF cancelled THEN "context canceled" ELSE kind
    /\ iteration' = 0
    /\ UNCHANGED <<messages, lastTokensUsed, checkpoints, fileOriginals, tasks, disk, shellRuns,
                   cancelled, calls, results, done, pos, confirm, turns, responses,
                   tasksAtDispatch, diskAt>>

\* make([]toolResult, len(calls)) and, on the parallel path, what happens before the tasks start
AllReadOnly(cs) == \A i \in 1..Len(cs) : IsReadOnly(cs[i].name)
InvalidJSONError(arguments) == "Error: invalid JSON in tool arguments: " \o arguments
ResultId(tc) == tc.id
InitialResults(cs) ==
    IF AllReadOnly(cs) /\ Len(cs) > 1
    THEN [i \in 1..Len(cs) |->
             [id |-> ResultId(cs[i]),
              output |-> IF JSONValid(cs[i].arguments) THEN "" ELSE InvalidJSONError(cs[i].arguments)]]
    ELSE [i \in 1..Len(cs) |-> ZeroResult]

\* One iteration from StreamMessage to the dispatch of the tool calls
StreamStep(resp, callLimit) ==
    /\ sendCalled' = FALSE
    /\ pc = "stream"
    /\ ~cancelled
    /\ llmCalls < callLimit
    /\ llmCalls' = llmCalls + 1
    /\ responses' = responses + 1
    /\ lastTokensUsed' = IF resp.usage > 0 THEN resp.usage ELSE lastTokensUsed
    /\ LET cs == CallsOf(resp.batch, responses + 1)
       IN  /\ messages' = GoAppend(messages, [role |-> "assistant", content |-> resp.content,
                                              calls |-> cs, id |-> ""])
           /\ IF resp.finish \in {"length", "stop"} \/ cs = <<>>
              THEN /\ pc' = "idle"
                   /\ outcome' = "ok"
                   /\ iteration' = 0
                   /\ UNCHANGED <<calls, results, done, pos, tasksAtDispatch>>
              ELSE /\ calls' = cs
                   /\ results' = InitialResults(cs)
                   /\ tasksAtDispatch' = tasks
                   /\ outcome' = "none"
                   /\ UNCHANGED iteration
                   /\ IF AllReadOnly(cs) /\ Len(cs) > 1
                      THEN /\ pc' = "par"
                           /\ done' = {i \in 1..Len(cs) : ~JSONValid(cs[i].arguments)}
                           /\ pos' = 0
                      ELSE /\ pc' = "seq"
                           /\ done' = {}
                           /\ pos' = 1
    /\ UNCHANGED <<checkpoints, fileOriginals, tasks, disk, shellRuns, cancelled, confirm, turns,
                   diskAt>>

ErrorOutputBare(r) == IF r.err # "" THEN r.err ELSE r.output
ErrorOutput(r) == IF r.err # "" THEN "Error: " \o r.err ELSE r.output

\* One goroutine of the parallel path
ToolTask(i) ==
    /\ sendCalled' = FALSE
    /\ pc = "par"
    /\ i \in (1..Len(calls)) \ done
    /\ LET r == Execute(calls[i].name, calls[i].arguments, disk, tasks, cancelled)
       IN  /\ results' = [results EXCEPT ![i].output = ErrorOutput(r)]
           /\ tasks' = r.tasks
    /\ done' = done \cup {i}
    /\ UNCHANGED <<pc, messages, lastTokensUsed, checkpoints, fileOriginals, disk, shellRuns,
                   cancelled, iteration, calls, pos, confirm, outcome, turns, responses, llmCalls,
                   tasksAtDispatch, diskAt>>

\* One call of the sequential path, up to its result or its confirmation prompt
SeqStep ==
    /\ sendCalled' = FALSE
    /\ pc = "seq"
    /\ pos \in 1..Len(calls)
    /\ LET tc == calls[pos]
           r == Execute(tc.name, tc.arguments, disk, tasks, cancelled)
       IN  IF ~JSONValid(tc.arguments)
           THEN /\ results' = [results EXCEPT ![pos] = [id |-> ResultId(tc),
                                                        output |-> InvalidJSONError(tc.arguments)]]
                /\ pos' = pos + 1
                /\ UNCHANGED <<pc, confirm, tasks>>
           ELSE IF r.confirm # <<>>
           THEN /\ results' = [results EXCEPT ![pos].id = ResultId(tc)]
                /\ confirm' = r.confirm
                /\ pc' = "confirm"
                /\ UNCHANGED <<pos, tasks>>
           ELSE /\ results' = [results EXCEPT ![pos] = [id |-> ResultId(tc), output |-> ErrorOutput(r)]]
                /\ tasks' = r.tasks
                /\ pos' = pos + 1
                /\ UNCHANGED <<pc, confirm>>
    /\ UNCHANGED <<messages, lastTokensUsed, checkpoints, fileOriginals, disk, shellRuns, cancelled,
                   iteration, calls, done, outcome, turns, responses, llmCalls, tasksAtDispatch, diskAt>>

\* if !approved { return "User denied the operation." }
DeniedNever(approved) == FALSE
Denied(approved) == ~approved

\* confirm.Execute(): [output, disk, shellRuns, tasks]
RunClosure(exec, path, d, runs, t, ctxDone) ==
    CASE exec.kind = "write" ->
            [output |-> "Successfully wrote " \o path, disk |-> WriteFile(d, exec.file, exec.content),
             shellRuns |-> runs, tasks |-> t]
      [] exec.kind = "edit" ->
            IF ReadFile(d, exec.file) = <<>>
            THEN [output |-> "Error: stat file", disk |-> d, shellRuns |-> runs, tasks |-> t]
            ELSE [output |-> "Successfully edited " \o path, disk |-> WriteFile(d, exec.file, exec.content),
                  shellRuns |-> runs, tasks |-> t]
      [] exec.kind = "bash" ->
            IF ctxDone
            THEN [output |-> "Exit code: context canceled\n", disk |-> d, shellRuns |-> runs, tasks |-> t]
            ELSE [output |-> "(no output)", disk |-> d, shellRuns |-> runs + 1, tasks |-> t]
      [] exec.kind = "write_tasks" ->
            [output |-> TaskSummary(WriteTasks(exec.n)), disk |-> d, shellRuns |-> runs,
             tasks |-> WriteTasks(exec.n)]

\* handleConfirmation from the user's answer on
ConfirmStepCaptureAfter(approved) ==
    /\ sendCalled' = FALSE
    /\ pc = "confirm"
    /\ LET c == confirm[1]
           run == RunClosure(c.Execute, c.Path, disk, shellRuns, tasks, cancelled)
       IN  IF Denied(approved)
           THEN /\ results' = [results EXCEPT ![pos].output = "User denied the operation."]
                /\ UNCHANGED <<fileOriginals, disk, shellRuns, tasks>>
           ELSE /\ fileOriginals' = IF c.Tool \in {"write", "edit"}
                                    THEN Captured(fileOriginals, c.Path, run.disk)
                                    ELSE fileOriginals
                /\ results' = [results EXCEPT ![pos].output = run.output]
                /\ disk' = run.disk
                /\ shellRuns' = run.shellRuns
                /\ tasks' = run.tasks
    /\ confirm' = NoConfirm
    /\ pos' = pos + 1
    /\ pc' = "seq"
    /\ UNCHANGED <<messages, lastTokensUsed, checkpoints, cancelled, iteration, calls, done, outcome,
                   turns, responses, llmCalls, tasksAtDispatch, diskAt>>
ConfirmStep(approved) ==
    /\ sendCalled' = FALSE
    /\ pc = "confirm"
    /\ LET c == confirm[1]
           run == RunClosure(c.Execute, c.Path, disk, shellRuns, tasks, cancelled)
       IN  IF Denied(approved)
           THEN /\ results' = [results EXCEPT ![pos].output = "User denied the operation."]
                /\ UNCHANGED <<fileOriginals, disk, shellRuns, tasks>>
           ELSE /\ fileOriginals' = IF c.Tool \in {"write", "edit"}
                                    THEN Captured(fileOriginals, c.Path, disk)
                                    ELSE fileOriginals
                /\ results' = [results EXCEPT ![pos].output = run.output]
                /\ disk' = run.disk
                /\ shellRuns' = run.shellRuns
                /\ tasks' = run.tasks
    /\ confirm' = NoConfirm
    /\ pos' = pos + 1
    /\ pc' = "seq"
    /\ UNCHANGED <<messages, lastTokensUsed, checkpoints, cancelled, iteration, calls, done, outcome,
                   turns, responses, llmCalls, tasksAtDispatch, diskAt>>

\* The tool-role messages Run appends for the results
ResultMessages(rs) == [i \in 1..Len(rs) |-> ToolResultMessage(rs[i].id, rs[i].output)]
NonEmptyResults(rs) == SelectSeq(rs, LAMBDA r : r.output # "")

\* executeToolCalls returns; Run appends the results and loops or returns
ReturnResults ==
    /\ sendCalled' = FALSE
    /\ \/ pc = "par" /\ done = 1..Len(calls)
       \/ pc = "seq" /\ pos > Len(calls)
    /\ IF cancelled
       THEN /\ messages' = GoAppendAll(messages, ResultMessages(NonEmptyResults(results)))
            /\ pc' = "idle"
            /\ outcome' = "context canceled"
            /\ iteration' = 0
       ELSE /\ messages' = GoAppendAll(messages, ResultMessages(results))
            /\ LoopAgain(messages', lastTokensUsed)
    /\ calls' = <<>>
    /\ results' = <<>>
    /\ done' = {}
    /\ pos' = 0
    /\ tasksAtDispatch' = <<>>
    /\ UNCHANGED <<lastTokensUsed, checkpoints, fileOriginals, tasks, disk, shellRuns, cancelled,
                   confirm, turns, responses, llmCalls, diskAt>>

\* Esc or Ctrl+C while a turn runs: opCtx is cancelled
Interrupt ==
    /\ sendCalled' = FALSE
    /\ pc \in {"compact", "stream", "par", "seq", "confirm"}
    /\ ~cancelled
    /\ cancelled' = TRUE
    /\ UNCHANGED <<pc, messages, lastTokensUsed, checkpoints, fileOriginals, tasks, disk, shellRuns,
                   iteration, calls, results, done, pos, confirm, outcome, turns, responses,
                   llmCalls, tasksAtDispatch, diskAt>>

\* ---- the REPL's commands between turns ----
\* a.messages[:n]: a panic beyond the capacity, else the first n elements of the backing array
CanReslice(s, n) == n <= Cap(s)
Reslice(s, n) == [arr |-> s.arr, len |-> n]

RewindCode(turn) ==
    /\ sendCalled' = FALSE
    /\ pc = "idle"
    /\ turn \in 1..Len(checkpoints)
    /\ LET cp == checkpoints[turn]
       IN  /\ \E o1 \in Orders(Keys(cp.Files)), o2 \in Orders(Keys(fileOriginals) \ Keys(cp.Files)) :
                  disk' = RewoundDisk(cp, o1, o2)
           /\ fileOriginals' = TrimmedOriginals(cp)
    /\ UNCHANGED <<pc, messages, lastTokensUsed, checkpoints, tasks, shellRuns, cancelled, iteration,
                   calls, results, done, pos, confirm, outcome, turns, responses, llmCalls,
                   tasksAtDispatch, diskAt>>

\* /rewind, action 4: SummarizeFrom
SummarizeFrom(turn, out) ==
    /\ sendCalled' = (checkpoints[turn].MsgIndex < messages.len)
    /\ pc = "idle"
    /\ turn \in 1..Len(checkpoints)
    /\ LET cp == checkpoints[turn]
       IN  IF cp.MsgIndex >= messages.len \/ out = "error"
           THEN UNCHANGED <<messages, checkpoints, diskAt, lastTokensUsed>>
           ELSE /\ messages' =
                      IF out # ""
                      THEN GoAppend(Reslice(messages, cp.MsgIndex),
                                    TextMessage("user", "[Conversation summarized] Here is a summary of what happened:\n\n" \o out))
                      ELSE Reslice(messages, cp.MsgIndex)
                /\ checkpoints' = SubSeq(checkpoints, 1, turn - 1)
                /\ diskAt' = SubSeq(diskAt, 1, turn - 1)
                /\ lastTokensUsed' = 0
    /\ UNCHANGED <<pc, fileOriginals, tasks, disk, shellRuns, cancelled, iteration, calls, results,
                   done, pos, confirm, outcome, turns, responses, llmCalls, tasksAtDispatch>>

\* ---- /resume: ResumeSession on the agent of the process ----
\* The messages of the session files the agent may resume
SavedRequest == "earlier request"
SavedSessions == {
    <<TextMessage("user", SavedRequest), TextMessage("assistant", "done")>>,
    <<TextMessage("user", SavedRequest), TextMessage("assistant", "done"),
      TextMessage("user", SavedRequest), TextMessage("assistant", "done")>> }

\* rebuildCheckpoints: one checkpoint for each user message of the restored
\* history, in order, with the index of that message and without files
UserPositions(h) == {i \in 1..Len(h) : h[i].role = "user"}
rebuildCheckpoints(h) ==
    [k \in 1..Cardinality(UserPositions(h)) |->
        LET i == CHOOSE j \in UserPositions(h) : Cardinality({l \in UserPositions(h) : l < j}) = k - 1
        IN  [Turn |-> k,
             Preview |-> h[i].content[1],
             MsgIndex |-> i - 1,
             Files |-> [p \in PathStrings |-> NotInMap]]]

ResumeSessionAgentKeepPrompt(saved) ==
    /\ sendCalled' = FALSE
    /\ pc = "idle"
    /\ LET h == <<History(messages)[1], TextMessage("system", SystemPrompt)>> \o saved
       IN  /\ messages' = [arr |-> h, len |-> Len(h)]
           /\ checkpoints' = rebuildCheckpoints(h)
           /\ diskAt' = [k \in 1..Cardinality(UserPositions(h)) |-> disk]
    /\ tasks' = <<>>
    /\ lastTokensUsed' = 0
    /\ UNCHANGED <<pc, fileOriginals, disk, shellRuns, cancelled, iteration, calls, results, done,
                   pos, confirm, outcome, turns, responses, llmCalls, tasksAtDispatch>>
ResumeSessionAgent(saved) ==
    /\ sendCalled' = FALSE
    /\ pc = "idle"
    /\ LET h == <<TextMessage("system", SystemPrompt)>> \o saved
       IN  /\ messages' = [arr |-> h, len |-> Len(h)]
           /\ checkpoints' = rebuildCheckpoints(h)
           /\ diskAt' = [k \in 1..Cardinality(UserPositions(h)) |-> disk]
    /\ tasks' = <<>>
    /\ lastTokensUsed' = 0
    /\ UNCHANGED <<pc, fileOriginals, disk, shellRuns, cancelled, iteration, calls, results, done,
                   pos, confirm, outcome, turns, responses, llmCalls, tasksAtDispatch>>

RewindConversation(turn) ==
    /\ sendCalled' = FALSE
    /\ pc = "idle"
    /\ turn \in 1..Len(checkpoints)
    /\ LET cp == checkpoints[turn]
       IN  IF CanReslice(messages, cp.MsgIndex)
           THEN /\ messages' = Reslice(messages, cp.MsgIndex)
                /\ checkpoints' = SubSeq(checkpoints, 1, turn - 1)
                /\ diskAt' = SubSeq(diskAt, 1, turn - 1)
                /\ lastTokensUsed' = 0
                /\ UNCHANGED pc
           ELSE /\ pc' = "crashed"
                /\ UNCHANGED <<messages, checkpoints, diskAt, lastTokensUsed>>
    /\ UNCHANGED <<fileOriginals, tasks, disk, shellRuns, cancelled, iteration, calls, results,
                   done, pos, confirm, outcome, turns, responses, llmCalls, tasksAtDispatch>>

RewindAll(turn) ==
    /\ sendCalled' = FALSE
    /\ pc = "idle"
    /\ turn \in 1..Len(checkpoints)
    /\ LET cp == checkpoints[turn]
       IN  /\ \E o1 \in Orders(Keys(cp.Files)), o2 \in Orders(Keys(fileOriginals) \ Keys(cp.Files)) :
                  disk' = RewoundDisk(cp, o1, o2)
           /\ fileOriginals' = TrimmedOriginals(cp)
           /\ IF CanReslice(messages, cp.MsgIndex)
              THEN /\ messages' = Reslice(messages, cp.MsgIndex)
                   /\ checkpoints' = SubSeq(checkpoints, 1, turn - 1)
                   /\ diskAt' = SubSeq(diskAt, 1, turn - 1)
                   /\ lastTokensUsed' = 0
                   /\ UNCHANGED pc
              ELSE /\ pc' = "crashed"
                   /\ UNCHANGED <<messages, checkpoints, diskAt, lastTokensUsed>>
    /\ UNCHANGED <<tasks, shellRuns, cancelled, iteration, calls, results, done, pos, confirm,
                   outcome, turns, responses, llmCalls, tasksAtDispatch>>

\* /compact
Compact(out) ==
    /\ sendCalled' = TRUE
    /\ pc = "idle"
    /\ messages.len > 1
    /\ IF out = "error"
       THEN UNCHANGED <<messages, lastTokensUsed>>
       ELSE /\ messages' = CompactedHistory(messages, out)
            /\ lastTokensUsed' = 0
    /\ UNCHANGED <<pc, checkpoints, fileOriginals, tasks, disk, shellRuns, cancelled, iteration,
                   calls, results, done, pos, confirm, outcome, turns, responses, llmCalls,
                   tasksAtDispatch, diskAt>>

\* /clear
ClearKeepCheckpoints ==
    /\ sendCalled' = FALSE
    /\ pc = "idle"
    /\ messages' = SliceOf(messages.arr[1])
    /\ lastTokensUsed' = 0
    /\ UNCHANGED <<pc, checkpoints, diskAt, fileOriginals, tasks, disk, shellRuns, cancelled, iteration,
                   calls, results, done, pos, confirm, outcome, turns, responses, llmCalls, tasksAtDispatch>>
Clear ==
    /\ sendCalled' = FALSE
    /\ pc = "idle"
    /\ messages' = SliceOf(messages.arr[1])
    /\ checkpoints' = <<>>
    /\ diskAt' = <<>>
    /\ lastTokensUsed' = 0
    /\ UNCHANGED <<pc, fileOriginals, tasks, disk, shellRuns, cancelled, iteration, calls, results,
                   done, pos, confirm, outcome, turns, responses, llmCalls, tasksAtDispatch>>

(***************************************************************************)
(* Session files: SaveSession and ResumeSession                            *)
(***************************************************************************)

\* The bytes a message body may hold: a letter, a character that encoding/json
\* escapes, the two bytes of a two-byte UTF-8 sequence, and U+FFFD as one unit
Bytes == {"a", "<", "C3", "A9", "EFBFBD"}

\* json.Marshal of a string coerces it to valid UTF-8: a byte that is not part
\* of a well-formed sequence becomes U+FFFD
RECURSIVE CoerceUTF8(_)
CoerceUTF8(b) ==
    IF b = <<>> THEN <<>>
    ELSE IF Head(b) = "C3" /\ Len(b) > 1 /\ b[2] = "A9" THEN <<"C3", "A9">> \o CoerceUTF8(Tail(Tail(b)))
    ELSE IF Head(b) \in {"C3", "A9"} THEN <<"EFBFBD">> \o CoerceUTF8(Tail(b))
    ELSE <<Head(b)>> \o CoerceUTF8(Tail(b))

\* The JSON string literal of a Go string, and the Go string of a literal
MarshalString(b) == [i \in 1..Len(CoerceUTF8(b)) |->
                        IF CoerceUTF8(b)[i] = "<" THEN "\\u003c" ELSE CoerceUTF8(b)[i]]
UnmarshalString(j) == [i \in 1..Len(j) |-> IF j[i] = "\\u003c" THEN "<" ELSE j[i]]

\* Message's JSON object: content is null or a string; tool_calls and
\* tool_call_id are omitted when empty (omitempty); an absent key is <<>>
MarshalMessage(m) ==
    [role |-> m.role,
     content |-> IF m.content = <<>> THEN <<>> ELSE <<MarshalString(m.content[1])>>,
     tool_calls |-> IF m.calls = <<>> THEN <<>> ELSE <<m.calls>>,
     tool_call_id |-> IF m.id = "" THEN <<>> ELSE <<m.id>>]
UnmarshalMessage(j) ==
    [role |-> j.role,
     content |-> IF j.content = <<>> THEN <<>> ELSE <<UnmarshalString(j.content[1])>>,
     calls |-> IF j.tool_calls = <<>> THEN <<>> ELSE j.tool_calls[1],
     id |-> IF j.tool_call_id = <<>> THEN "" ELSE j.tool_call_id[1]]

\* The messages a turn may leave in the history
SessionBodies == {<<>>, <<"a">>, <<"<", "a">>, <<"C3", "A9">>, <<"a", "C3">>}
SessionCall == <<[id |-> "tc1", name |-> "read", arguments |-> "{path:a.txt}"]>>
SessionMessages ==
    {[role |-> "user", content |-> <<b>>, calls |-> <<>>, id |-> ""] : b \in {<<"a">>, <<"<", "a">>}}
    \cup {[role |-> "assistant", content |-> c, calls |-> cs, id |-> ""] :
             c \in {<<>>, << <<>> >>, << <<"a">> >>}, cs \in {<<>>, SessionCall}}
    \cup {[role |-> "tool", content |-> <<b>>, calls |-> <<>>, id |-> "tc1"] : b \in SessionBodies}

SystemMessage == [role |-> "system", content |-> << <<"a">> >>, calls |-> <<>>, id |-> ""]

InitSession ==
    /\ sPhase = "running"
    /\ sMessages = <<SystemMessage>>
    /\ sFile = <<>>
    /\ sResumed = <<>>

\* A turn appends a message to the history of the agent that will save
AppendMessage(m, maxLen) ==
    /\ sPhase = "running"
    /\ Len(sMessages) < maxLen
    /\ sMessages' = Append(sMessages, m)
    /\ UNCHANGED <<sPhase, sFile, sResumed>>

\* SaveSession: nothing is written while the history is only the system prompt
SaveSession ==
    /\ sPhase = "running"
    /\ sPhase' = "saved"
    /\ sFile' = IF Len(sMessages) <= 1 THEN sFile
                ELSE <<[i \in 1..(Len(sMessages) - 1) |-> MarshalMessage(sMessages[i + 1])]>>
    /\ UNCHANGED <<sMessages, sResumed>>

\* ResumeSession in a fresh agent: a fresh system prompt, then the file's messages
ResumeSession ==
    /\ sPhase = "saved"
    /\ IF sFile = <<>>
       THEN sPhase' = "failed" /\ UNCHANGED sResumed
       ELSE /\ sPhase' = "resumed"
            /\ sResumed' = <<SystemMessage>> \o [i \in 1..Len(sFile[1]) |-> UnmarshalMessage(sFile[1][i])]
    /\ UNCHANGED <<sMessages, sFile>>

(***************************************************************************)
(* compactIfNeeded as a function of the window, the usage and the history  *)
(***************************************************************************)

\* strings.Repeat
RECURSIVE Repeat(_, _)
Repeat(str, n) == IF n = 0 THEN "" ELSE str \o Repeat(str, n - 1)

\* The context windows an agent is constructed with: the one of the compaction
\* test and the default of the OpenAI provider
ContextWindows == {500, ContextWindow}

\* Provider-reported usages around the two thresholds (0: none reported)
ReportedUsages == {0, 1, 400, 401, 102400, 102401, 120000}

\* Histories far below 400 estimated tokens, of exactly 400 and 401, and far above
LongContent(n) == Repeat("This is a long message to fill tokens. ", n)
GateHistories ==
    { <<TextMessage("system", SystemPrompt), TextMessage("user", "hello")>>,
      <<TextMessage("system", SystemPrompt), TextMessage("user", "find go files"),
        TextMessage("assistant", LongContent(39)), TextMessage("user", Repeat("abcd", 9))>>,
      <<TextMessage("system", SystemPrompt), TextMessage("user", "find go files"),
        TextMessage("assistant", LongContent(39)), TextMessage("user", Repeat("abcd", 10))>>,
      <<TextMessage("system", SystemPrompt), TextMessage("user", "find go files"),
        TextMessage("assistant", LongContent(100)), TextMessage("user", "now what?"),
        TextMessage("user", "continue")>> }

InitGate ==
    /\ gPhase = "input"
    /\ gWindow = ContextWindow
    /\ gUsed = 0
    /\ gMessages = SliceOf(TextMessage("system", SystemPrompt))
    /\ gAfter = SliceOf(TextMessage("system", SystemPrompt))
    /\ gSends = 0

\* The agent's state at the top of an iteration of Run
GateInput(window, used, ms) ==
    /\ gPhase = "input"
    /\ gPhase' = "called"
    /\ gWindow' = window
    /\ gUsed' = used
    /\ gMessages' = GoAppendAll(SliceOf(ms[1]), Tail(ms))
    /\ gAfter' = gMessages'
    /\ UNCHANGED gSends

\* compactIfNeeded: doCompact, with its SendMessage call, only above the threshold
CompactIfNeeded(out) ==
    /\ gPhase = "called"
    /\ gPhase' = "returned"
    /\ IF ShouldCompact(gWindow, gUsed, History(gMessages))
       THEN /\ gSends' = gSends + 1
            /\ gAfter' = IF out = "error" THEN gMessages ELSE CompactedHistory(gMessages, out)
       ELSE UNCHANGED <<gSends, gAfter>>
    /\ UNCHANGED <<gWindow, gUsed, gMessages>>

(***************************************************************************)
(* The stream accumulator: AccumulateStream                                *)
(***************************************************************************)

\* A ToolCallDelta and a StreamEvent; Usage is a *Usage (<<>>: nil), Err is "" for nil
Delta(index, id, name, arguments) ==
    [Index |-> index, ID |-> id, Name |-> name, Arguments |-> arguments]
Usage(prompt, completion) ==
    [PromptTokens |-> prompt, CompletionTokens |-> completion, TotalTokens |-> prompt + completion]
StreamEvent(text, deltas, isDone, err, usage, finish) ==
    [TextDelta |-> text, ToolCallDeltas |-> deltas, Done |-> isDone, Err |-> err,
     Usage |-> usage, FinishReason |-> finish]

\* The indices a delta may carry
Indices == {0, 1, 2}

\* What the channel may deliver: text, tool-call deltas (an id and a name, argument
\* fragments, a second id and name for an index, two deltas in one event, an index
\* that leaves a gap), usage, finish reasons, the end of the stream, an error
TextEvents == { StreamEvent("Hello", <<>>, FALSE, "", <<>>, "") }
DeltaEvents == {
    StreamEvent("", <<Delta(0, "call_a", "glob", "")>>, FALSE, "", <<>>, ""),
    StreamEvent("", <<Delta(0, "", "", "{p")>>, FALSE, "", <<>>, ""),
    StreamEvent("", <<Delta(0, "", "", "q}")>>, FALSE, "", <<>>, ""),
    StreamEvent("", <<Delta(0, "call_b", "grep", "")>>, FALSE, "", <<>>, ""),
    StreamEvent("", <<Delta(1, "call_c", "grep", "{r}")>>, FALSE, "", <<>>, ""),
    StreamEvent("", <<Delta(2, "call_d", "read", "{s}")>>, FALSE, "", <<>>, ""),
    StreamEvent("", <<Delta(0, "", "", "{t"), Delta(1, "", "", "{u")>>, FALSE, "", <<>>, "") }
UsageEvents == {
    StreamEvent("", <<>>, FALSE, "", <<Usage(10, 5)>>, ""),
    StreamEvent("", <<>>, FALSE, "", <<Usage(12, 8)>>, "tool_calls"),
    StreamEvent("", <<>>, FALSE, "", <<>>, "stop") }
DoneEvents == {
    StreamEvent("", <<>>, TRUE, "", <<>>, ""),
    StreamEvent("", <<>>, TRUE, "", <<Usage(20, 10)>>, "length") }
ErrEvents == { StreamEvent("", <<>>, FALSE, "stream failed", <<>>, "") }
StreamEvents == TextEvents \cup DeltaEvents \cup UsageEvents \cup DoneEvents \cup ErrEvents

ZeroUsage == [PromptTokens |-> 0, CompletionTokens |-> 0, TotalTokens |-> 0]
ZeroToolCall == [ID |-> "", Name |-> "", Arguments |-> ""]

\* if delta.ID != "" { tc.ID = delta.ID }, and the same for the name
MergeFieldKeepFirst(old, new) == IF old = "" THEN new ELSE old
MergeField(old, new) == IF new # "" THEN new ELSE old

\* tc.Function.Arguments += delta.Function.Arguments
AppendArgumentsInFront(old, fragment) == fragment \o old
AppendArguments(old, fragment) == old \o fragment

\* The body of the loop over event.ToolCallDeltas, for one delta
ApplyDelta(tcs, d) ==
    LET tc == IF tcs[d.Index] = NotInMap THEN ZeroToolCall ELSE tcs[d.Index][1]
    IN  [tcs EXCEPT ![d.Index] = InMap([ID |-> MergeField(tc.ID, d.ID),
                                        Name |-> MergeField(tc.Name, d.Name),
                                        Arguments |-> AppendArguments(tc.Arguments, d.Arguments)])]

RECURSIVE ApplyDeltas(_, _)
ApplyDeltas(tcs, ds) == IF ds = <<>> THEN tcs ELSE ApplyDeltas(ApplyDelta(tcs, Head(ds)), Tail(ds))

\* for i := 0; i < len(toolCalls); i++ { if tc, ok := toolCalls[i]; ok { append } }
RECURSIVE CollectCalls(_, _, _)
CollectCalls(tcs, i, n) ==
    IF i >= n THEN <<>>
    ELSE (IF i \in Indices /\ tcs[i] # NotInMap THEN <<tcs[i][1]>> ELSE <<>>) \o CollectCalls(tcs, i + 1, n)

\* The Response built after the loop
BuildResponse(content, tcs, usage, finish) ==
    [Err |-> "",
     Content |-> IF Len(content) > 0 THEN <<content>> ELSE <<>>,
     ToolCalls |-> CollectCalls(tcs, 0, Cardinality({i \in Indices : tcs[i] # NotInMap})),
     FinishReason |-> finish,
     Usage |-> usage]

InitStream ==
    /\ aPhase = "reading"
    /\ aEvents = <<>>
    /\ aContent = ""
    /\ aToolCalls = [i \in Indices |-> NotInMap]
    /\ aUsage = ZeroUsage
    /\ aFinish = ""
    /\ aResp = <<>>

\* One iteration of the loop over the channel
Receive(event, maxEvents) ==
    /\ aPhase = "reading"
    /\ Len(aEvents) < maxEvents
    /\ aEvents' = Append(aEvents, event)
    /\ IF event.Err # ""
       THEN /\ aPhase' = "failed"
            /\ aResp' = <<[Err |-> event.Err]>>
            /\ UNCHANGED <<aContent, aToolCalls, aUsage, aFinish>>
       ELSE IF event.Done
       THEN /\ aPhase' = "returned"
            /\ aResp' = <<BuildResponse(aContent, aToolCalls, aUsage, aFinish)>>
            /\ UNCHANGED <<aContent, aToolCalls, aUsage, aFinish>>
       ELSE /\ aContent' = aContent \o event.TextDelta
            /\ aToolCalls' = ApplyDeltas(aToolCalls, event.ToolCallDeltas)
            /\ aUsage' = IF event.Usage # <<>> THEN event.Usage[1] ELSE aUsage
            /\ aFinish' = IF event.FinishReason # "" THEN event.FinishReason ELSE aFinish
            /\ UNCHANGED <<aPhase, aResp>>

\* The channel is closed without a Done event: the range loop ends
ChannelClosed ==
    /\ aPhase = "reading"
    /\ aPhase' = "returned"
    /\ aResp' = <<BuildResponse(aContent, aToolCalls, aUsage, aFinish)>>
    /\ UNCHANGED <<aEvents, aContent, aToolCalls, aUsage, aFinish>>

(***************************************************************************)
(* The explore sub-agent: runExplore                                       *)
(***************************************************************************)

MaxExploreIterations == 30

\* NewReadOnlyRegistry: the names registerReadOnlyTools registers
ReadOnlyRegistryWithWriters == {"glob", "grep", "ls", "read", "write", "edit", "bash"}
ReadOnlyRegistry == {"glob", "grep", "ls", "read"}

\* roRegistry.Execute
ExecuteReadOnly(name, arguments, d, t, ctxDone) ==
    IF name \in ReadOnlyRegistry
    THEN Execute(name, arguments, d, t, ctxDone)
    ELSE Fail("unknown tool: " \o name, t)

\* What the sub-agent's LLM may answer: [err, content, batch]
ExploreResponse(err, content, batch) == [err |-> err, content |-> content, batch |-> batch]
ExploreResponses == {
    ExploreResponse("", <<"the answer">>, <<>>),
    ExploreResponse("", <<>>, <<>>),
    ExploreResponse("context canceled", <<>>, <<>>),
    ExploreResponse("", <<>>, <<Call("read", "{path:b.txt}")>>),
    ExploreResponse("", <<"let me fix it">>, <<Call("write", "{path:a.txt,content:v1}"),
                                               Call("bash", "{command:make}")>>),
    ExploreResponse("", <<>>, <<Call("read", "{path:a.txt}"),
                                Call("edit", "{path:b.txt,old_str:old,new_str:new}")>>) }

NoExploreResponse == ExploreResponse("", <<>>, <<>>)

InitExplore ==
    /\ ePhase = "send"
    /\ eIteration = 0
    /\ eLen = 2
    /\ eCalls = <<>>
    /\ eOutputs = <<>>
    /\ eDone = {}
    /\ eResult = <<>>
    /\ eSends = 0
    /\ eLast = NoExploreResponse
    /\ eConfirms = 0

\* iteration < MaxExploreIterations
ExploreLoopTestInclusive(i) == i <= MaxExploreIterations
ExploreLoopTest(i) == i < MaxExploreIterations

\* The top of an iteration: SendMessage, and the return when the response has no tool calls
ExploreSend(resp) ==
    /\ ePhase = "send"
    /\ eSends' = eSends + 1
    /\ eLast' = resp
    /\ IF resp.err # ""
       THEN /\ ePhase' = "returned"
            /\ eResult' = <<[output |-> "", err |-> "explore sub-agent LLM error: " \o resp.err]>>
            /\ UNCHANGED <<eLen, eCalls, eOutputs>>
       ELSE IF resp.batch = <<>>
       THEN /\ ePhase' = "returned"
            /\ eLen' = eLen + 1
            /\ eResult' = <<[output |-> IF resp.content = <<>> THEN "" ELSE resp.content[1], err |-> ""]>>
            /\ UNCHANGED <<eCalls, eOutputs>>
       ELSE /\ ePhase' = "tools"
            /\ eLen' = eLen + 1
            /\ eCalls' = resp.batch
            /\ eOutputs' = [i \in 1..Len(resp.batch) |-> ""]
            /\ UNCHANGED eResult
    /\ UNCHANGED <<eIteration, eDone, eConfirms>>

\* One goroutine of the sub-agent's batch
ExploreToolTask(i) ==
    /\ ePhase = "tools"
    /\ i \in (1..Len(eCalls)) \ eDone
    /\ LET r == ExecuteReadOnly(eCalls[i].name, eCalls[i].arguments, disk, tasks, FALSE)
       IN  /\ eOutputs' = [eOutputs EXCEPT ![i] = ErrorOutput(r)]
           /\ eConfirms' = IF r.confirm # <<>> THEN eConfirms + 1 ELSE eConfirms
    /\ eDone' = eDone \cup {i}
    /\ UNCHANGED <<ePhase, eIteration, eLen, eCalls, eResult, eSends, eLast>>

\* wg.Wait() returned: the results are appended, iteration++, the loop test
ExploreCollect ==
    /\ ePhase = "tools"
    /\ eDone = 1..Len(eCalls)
    /\ eLen' = eLen + Len(eCalls)
    /\ eIteration' = eIteration + 1
    /\ IF ExploreLoopTest(eIteration + 1)
       THEN /\ ePhase' = "send"
            /\ UNCHANGED eResult
       ELSE /\ ePhase' = "returned"
            /\ eResult' = <<[output |-> "Explore sub-agent reached maximum iterations without completing.",
                              err |-> ""]>>
    /\ eCalls' = <<>>
    /\ eOutputs' = <<>>
    /\ eDone' = {}
    /\ UNCHANGED <<eSends, eLast, eConfirms>>

(***************************************************************************)
(* AtomicWrite                                                             *)
(***************************************************************************)

TargetName == "a.txt"
TempNames == {".pilot-1", ".pilot-2"}
WriteContents == {"", "v1", "v2"}
Perms == {420, 384}           \* 0644, 0600
SyscallErrors == {"no space left on device", "permission denied"}
MaxWrites == 2

File(content, perm) == [content |-> content, perm |-> perm]

\* The deferred function: if tmpPath != "" { os.Remove(tmpPath) }
DeferredCleanupNever(dir, tmpPath) == dir
DeferredCleanup(dir, tmpPath) ==
    IF tmpPath # "" THEN [n \in DOMAIN dir \ {tmpPath} |-> dir[n]] ELSE dir

InitWrite ==
    /\ wPc = "idle"
    /\ wDir = <<>>
    /\ wTmpPath = ""
    /\ wContent = ""
    /\ wPerm = 420
    /\ wErr = ""
    /\ wPre = <<>>
    /\ wCalls = 0

\* A step of AtomicWrite fails: the error is wrapped and the deferred function runs
WriteFails(step, cause, dir) ==
    /\ wPc' = "returned"
    /\ wErr' = step \o " temp file: " \o cause
    /\ wDir' = DeferredCleanup(dir, wTmpPath)
    /\ UNCHANGED <<wTmpPath, wContent, wPerm, wPre, wCalls>>

WriteProceeds(next, dir) ==
    /\ wPc' = next
    /\ wDir' = dir
    /\ UNCHANGED <<wTmpPath, wContent, wPerm, wErr, wPre, wCalls>>

\* The call, and os.CreateTemp(dir, ".pilot-*"): a new file of mode 0600
CreateTemp(content, perm, cause) ==
    /\ wPc \in {"idle", "returned"}
    /\ wCalls < MaxWrites
    /\ wCalls' = wCalls + 1
    /\ wContent' = content
    /\ wPerm' = perm
    /\ wPre' = wDir
    /\ IF cause # ""
       THEN /\ wPc' = "returned"
            /\ wErr' = "create temp file: " \o cause
            /\ wTmpPath' = ""
            /\ UNCHANGED wDir
       ELSE \E name \in TempNames \ DOMAIN wDir :
                /\ wPc' = "write"
                /\ wErr' = ""
                /\ wTmpPath' = name
                /\ wDir' = [n \in DOMAIN wDir \cup {name} |->
                               IF n = name THEN File("", 384) ELSE wDir[n]]

\* tmp.Write(content); a failed write may have written a part of the content
WriteTemp(cause) ==
    /\ wPc = "write"
    /\ IF cause # ""
       THEN \E k \in 0..Len(wContent) :
                WriteFails("write", cause, [wDir EXCEPT ![wTmpPath].content = SubSeq(wContent, 1, k)])
       ELSE WriteProceeds("close", [wDir EXCEPT ![wTmpPath].content = wContent])

\* tmp.Close()
CloseTemp(cause) ==
    /\ wPc = "close"
    /\ IF cause # "" THEN WriteFails("close", cause, wDir) ELSE WriteProceeds("chmod", wDir)

\* os.Chmod(tmpPath, perm)
Chmod(cause) ==
    /\ wPc = "chmod"
    /\ IF cause # ""
       THEN WriteFails("chmod", cause, wDir)
       ELSE WriteProceeds("rename", [wDir EXCEPT ![wTmpPath].perm = wPerm])

\* os.Rename(tmpPath, targetPath); tmpPath = ""; the deferred function
Rename(cause) ==
    /\ wPc = "rename"
    /\ IF cause # ""
       THEN WriteFails("rename", cause, wDir)
       ELSE /\ wPc' = "returned"
            /\ wTmpPath' = ""
            /\ wDir' = DeferredCleanup(
                           [n \in (DOMAIN wDir \ {wTmpPath}) \cup {TargetName} |->
                               IF n = TargetName THEN wDir[wTmpPath] ELSE wDir[n]], "")
            /\ UNCHANGED <<wContent, wPerm, wErr, wPre, wCalls>>

(***************************************************************************)
(* main: Ctrl+C handling                                                   *)
(***************************************************************************)

MaxClock == 4
MaxSignals == 3

InitSignal ==
    /\ sigCh = 0
    /\ runCancel = FALSE
    /\ lastInterrupt = <<>>
    /\ now = 0
    /\ runCtxDone = FALSE
    /\ exited = FALSE
    /\ sigLog = <<>>

\* now.Sub(lastInterrupt) < 2*time.Second; Sub of the zero time saturates
DoubleTap(t, last) == last # <<>> /\ t - last[1] < 2

\* A second passes
Tick ==
    /\ ~exited
    /\ now < MaxClock
    /\ now' = now + 1
    /\ UNCHANGED <<sigCh, runCancel, lastInterrupt, runCtxDone, exited, sigLog>>

\* The runtime delivers an interrupt to sigCh, dropping it when the buffer is full
Notify ==
    /\ ~exited
    /\ Len(sigLog) + sigCh < MaxSignals
    /\ sigCh' = 1
    /\ UNCHANGED <<runCancel, lastInterrupt, now, runCtxDone, exited, sigLog>>

\* One iteration of the goroutine's loop over sigCh
HandleSignal ==
    /\ ~exited
    /\ sigCh = 1
    /\ sigCh' = 0
    /\ lastInterrupt' = <<now>>
    /\ IF runCancel
       THEN /\ runCtxDone' = TRUE
            /\ sigLog' = Append(sigLog, "cancel")
            /\ UNCHANGED exited
       ELSE IF DoubleTap(now, lastInterrupt)
       THEN /\ exited' = TRUE
            /\ sigLog' = Append(sigLog, "exit")
            /\ UNCHANGED runCtxDone
       ELSE /\ sigLog' = Append(sigLog, "prompt")
            /\ UNCHANGED <<runCtxDone, exited>>
    /\ UNCHANGED <<runCancel, now>>

\* The input loop starts a turn: runCtx, cancel := context.WithCancel(rootCtx); runCancel = cancel
StartTurn ==
    /\ ~exited
    /\ ~runCancel
    /\ runCancel' = TRUE
    /\ runCtxDone' = FALSE
    /\ UNCHANGED <<sigCh, lastInterrupt, now, exited, sigLog>>

\* ag.Run returned: runCancel = nil
EndTurn ==
    /\ ~exited
    /\ runCancel
    /\ runCancel' = FALSE
    /\ UNCHANGED <<sigCh, lastInterrupt, now, runCtxDone, exited, sigLog>>

(***************************************************************************)
(* main: the input loop and SaveSession                                    *)
(***************************************************************************)

MaxReplTurns == 2
MaxReplLen == 4
MaxReplSaves == 3
ReplInputs == {"eof", "/quit", "/clear", "/compact", "do it"}
RunErrors == {"", "error", "cancelled"}
SaveFailures == {"", "resolve sessions dir", "create sessions dir", "marshal session", "rename"}

InitRepl ==
    /\ replPc = "prompt"
    /\ replErr = ""
    /\ replLen = 1
    /\ replPrinted = <<>>
    /\ replFile = <<>>
    /\ replSaves = 0
    /\ replTurns = 0

\* SaveSession: [err, file]; nothing is written for a history of the system prompt alone
SaveSessionResult(len, failure, file) ==
    IF len <= 1 THEN [err |-> "", file |-> file]
    ELSE IF failure # "" THEN [err |-> failure, file |-> file]
    ELSE [err |-> "", file |-> <<len - 1>>]

\* if saveErr := ag.SaveSession(); saveErr != nil { term.PrintWarning(...) }
SaveWarning(printed, err) ==
    IF err # "" THEN Append(printed, "Session save failed: " \o err) ELSE printed

\* What the loop prints for the err of ag.Run
RunReport(err) ==
    CASE err = "" -> <<>>
      [] err = "cancelled" -> <<"Operation cancelled.">>
      [] OTHER -> <<"Error: " \o err>>

\* Whether the loop calls SaveSession after ag.Run returned err
SavesAfterRunOnSuccess(err) == err = ""
SavesAfterRun(err) == TRUE

\* readInput and the switch on the input
ReadInput(input, failure) ==
    /\ replPc = "prompt"
    /\ CASE input \in {"eof", "/quit"} ->
              /\ replPc' = "stopped"
              /\ UNCHANGED <<replErr, replLen, replPrinted, replFile, replSaves, replTurns>>
         [] input = "/clear" ->
              /\ replLen' = 1
              /\ replPrinted' = <<"Conversation cleared.">>
              /\ UNCHANGED <<replPc, replErr, replFile, replSaves, replTurns>>
         [] input = "/compact" ->
              LET r == SaveSessionResult(replLen, failure, replFile)
              IN  /\ replSaves < MaxReplSaves
                  /\ replPrinted' = SaveWarning(<<>>, r.err)
                  /\ replFile' = r.file
                  /\ replSaves' = replSaves + 1
                  /\ UNCHANGED <<replPc, replErr, replLen, replTurns>>
         [] OTHER ->
              /\ replTurns < MaxReplTurns
              /\ replPc' = "run"
              /\ replTurns' = replTurns + 1
              /\ replPrinted' = <<>>
              /\ UNCHANGED <<replErr, replLen, replFile, replSaves>>

\* ag.Run returned: the history holds at least the user message more
RunReturns(err, grown) ==
    /\ replPc = "run"
    /\ replLen + grown <= MaxReplLen
    /\ replPc' = "returned"
    /\ replErr' = err
    /\ replLen' = replLen + grown
    /\ UNCHANGED <<replPrinted, replFile, replSaves, replTurns>>

\* The rest of the loop body: the report of err, then SaveSession
FinishTurn(failure) ==
    /\ replPc = "returned"
    /\ replPc' = "prompt"
    /\ IF SavesAfterRun(replErr)
       THEN LET r == SaveSessionResult(replLen, failure, replFile)
            IN  /\ replPrinted' = SaveWarning(RunReport(replErr), r.err)
                /\ replFile' = r.file
                /\ replSaves' = replSaves + 1
       ELSE /\ replPrinted' = RunReport(replErr)
            /\ UNCHANGED <<replFile, replSaves>>
    /\ UNCHANGED <<replErr, replLen, replTurns>>

(***************************************************************************)
(* InterruptListener: readLoop, Pause, Resume, Stop, and ConfirmAction     *)
(***************************************************************************)

MaxTyped == 4
MaxConfirms == 2
Esc == "esc"
Newline == "\n"
RawKeys == {Esc, "x"}
Answers == {"y", "n"}

\* StartEscapeListener succeeded: raw mode is on and readLoop runs
InitListener ==
    /\ ilActive = TRUE
    /\ ilRaw = TRUE
    /\ ilStopCh = FALSE
    /\ ilLoop = "poll"
    /\ ilByte = ""
    /\ ilCancelled = FALSE
    /\ stdin = <<>>
    /\ ilCaller = "running"
    /\ scanned = <<>>
    /\ ilApproved = <<>>
    /\ ilTaken = <<>>
    /\ pauses = 0
    /\ resumes = 0
    /\ typed = 0

\* A key pressed while the terminal is in raw mode
TypeKey(ch) ==
    /\ ilRaw
    /\ ilCaller # "returned"
    /\ typed < MaxTyped
    /\ stdin' = Append(stdin, ch)
    /\ typed' = typed + 1
    /\ UNCHANGED <<ilActive, ilRaw, ilStopCh, ilLoop, ilByte, ilCancelled, ilCaller, scanned,
                   ilApproved, ilTaken, pauses, resumes>>

\* The answer to the prompt, typed in line mode: it reaches stdin with its newline
TypeLine(answer) ==
    /\ ~ilRaw
    /\ ilCaller = "scan"
    /\ typed + 2 <= MaxTyped
    /\ stdin' = stdin \o <<answer, Newline>>
    /\ typed' = typed + 2
    /\ UNCHANGED <<ilActive, ilRaw, ilStopCh, ilLoop, ilByte, ilCancelled, ilCaller, scanned,
                   ilApproved, ilTaken, pauses, resumes>>

\* ReadKeyContext up to the end of select(2): ErrStopped, a timeout, or stdin is readable
LoopPoll ==
    /\ ilLoop = "poll"
    /\ IF ilStopCh THEN ilLoop' = "exited"
       ELSE /\ stdin # <<>>
            /\ ilLoop' = "read"
    /\ UNCHANGED <<ilActive, ilRaw, ilStopCh, ilByte, ilCancelled, stdin, ilCaller, scanned,
                   ilApproved, ilTaken, pauses, resumes, typed>>

\* os.Stdin.Read(buf): blocks while stdin is empty
LoopRead ==
    /\ ilLoop = "read"
    /\ stdin # <<>>
    /\ ilByte' = Head(stdin)
    /\ stdin' = Tail(stdin)
    /\ ilTaken' = Append(ilTaken, Head(stdin))
    /\ ilLoop' = "check"
    /\ UNCHANGED <<ilActive, ilRaw, ilStopCh, ilCancelled, ilCaller, scanned, ilApproved, pauses,
                   resumes, typed>>

\* readLoop after ReadKeyContext returned a byte
LoopCheck ==
    /\ ilLoop = "check"
    /\ IF ilActive /\ ilByte = Esc
       THEN /\ ilCancelled' = TRUE
            /\ ilLoop' = "exited"
       ELSE /\ ilLoop' = "poll"
            /\ UNCHANGED ilCancelled
    /\ UNCHANGED <<ilActive, ilRaw, ilStopCh, ilByte, stdin, ilCaller, scanned, ilApproved,
                   ilTaken, pauses, resumes, typed>>

\* handleConfirmation: listener.Pause(), then ConfirmAction prints the prompt
Pause ==
    /\ ilCaller = "running"
    /\ pauses < MaxConfirms
    /\ ilActive' = FALSE
    /\ ilRaw' = FALSE
    /\ ilCaller' = "scan"
    /\ scanned' = <<>>
    /\ pauses' = pauses + 1
    /\ UNCHANGED <<ilStopCh, ilLoop, ilByte, ilCancelled, stdin, ilApproved, ilTaken, resumes, typed>>

\* fmt.Scanln reads one byte; the newline ends the read and ConfirmAction returns
ScanByte ==
    /\ ilCaller = "scan"
    /\ stdin # <<>>
    /\ stdin' = Tail(stdin)
    /\ IF Head(stdin) = Newline
       THEN /\ ilCaller' = "resume"
            /\ ilApproved' = Append(ilApproved, scanned = <<"y">>)
            /\ UNCHANGED scanned
       ELSE /\ scanned' = Append(scanned, Head(stdin))
            /\ UNCHANGED <<ilCaller, ilApproved>>
    /\ UNCHANGED <<ilActive, ilRaw, ilStopCh, ilLoop, ilByte, ilCancelled, ilTaken, pauses, resumes,
                   typed>>

\* Whether handleConfirmation calls listener.Resume() after ConfirmAction returned
ResumesAfterOnApproval(answer) == answer
ResumesAfter(answer) == TRUE

\* listener.Resume(), and the rest of handleConfirmation
Resume ==
    /\ ilCaller = "resume"
    /\ IF ResumesAfter(ilApproved[Len(ilApproved)])
       THEN /\ ilRaw' = TRUE
            /\ ilActive' = TRUE
            /\ resumes' = resumes + 1
       ELSE UNCHANGED <<ilRaw, ilActive, resumes>>
    /\ ilCaller' = "running"
    /\ UNCHANGED <<ilStopCh, ilLoop, ilByte, ilCancelled, stdin, scanned, ilApproved, ilTaken,
                   pauses, typed>>

\* Run returns: the deferred listener.Stop() up to <-il.done
Stop ==
    /\ ilCaller = "running"
    /\ ilActive' = FALSE
    /\ ilRaw' = FALSE
    /\ ilStopCh' = TRUE
    /\ ilCaller' = "stopping"
    /\ UNCHANGED <<ilLoop, ilByte, ilCancelled, stdin, scanned, ilApproved, ilTaken, pauses,
                   resumes, typed>>

\* <-il.done; il.cancel()
StopReturns ==
    /\ ilCaller = "stopping"
    /\ ilLoop = "exited"
    /\ ilCancelled' = TRUE
    /\ ilCaller' = "returned"
    /\ UNCHANGED <<ilActive, ilRaw, ilStopCh, ilLoop, ilByte, stdin, scanned, ilApproved, ilTaken,
                   pauses, resumes, typed>>

gateFrame == UNCHANGED <<retryVars, pathVars, agentVars, sessionVars, auxVars>>

sessionFrame == UNCHANGED <<retryVars, pathVars, agentVars, gateVars, auxVars>>

agentFrame == UNCHANGED <<retryVars, pathVars, sessionVars, gateVars, auxVars>>

coreVars == <<retryVars, pathVars, agentVars, sessionVars, gateVars>>
streamFrame == UNCHANGED <<coreVars, exploreVars, writeVars, signalVars, replVars, listenerVars>>
exploreFrame == UNCHANGED <<coreVars, streamVars, writeVars, signalVars, replVars, listenerVars>>
writeFrame == UNCHANGED <<coreVars, streamVars, exploreVars, signalVars, replVars, listenerVars>>
signalFrame == UNCHANGED <<coreVars, streamVars, exploreVars, writeVars, replVars, listenerVars>>
replFrame == UNCHANGED <<coreVars, streamVars, exploreVars, writeVars, signalVars, listenerVars>>
listenerFrame == UNCHANGED <<coreVars, streamVars, exploreVars, writeVars, signalVars, replVars>>


vars == <<retryVars, pathVars, agentVars, sessionVars, gateVars, auxVars>>

Init ==
    /\ InitRetry /\ InitPath /\ InitAgent /\ InitSession /\ InitGate /\ InitStream
    /\ InitExplore /\ InitWrite /\ InitSignal /\ InitRepl /\ InitListener

NextRetry ==
    \/ \E resp \in Responses : DoRequest(resp) /\ UNCHANGED <<pathVars, agentVars, sessionVars, gateVars, auxVars>>
    \/ \E j \in JitterMs : BackoffWait(j) /\ UNCHANGED <<pathVars, agentVars, sessionVars, gateVars, auxVars>>
    \/ \E cause \in CancelCauses : BackoffCancel(cause) /\ UNCHANGED <<pathVars, agentVars, sessionVars, gateVars, auxVars>>

NextPath ==
    \/ \E p \in PathInputs : RequestPath(p) /\ UNCHANGED <<retryVars, agentVars, sessionVars, gateVars, auxVars>>
    \/ ValidatePathCall /\ UNCHANGED <<retryVars, agentVars, sessionVars, gateVars, auxVars>>

\* ---- bounds of the explorations ----
MaxTurns == 1
MaxLLMCallsPerTurn == 3
MaxRewindTurns == 3
MaxRewindCalls == 2
MaxHistoryTurns == 5
MaxHistoryCalls == 2
MaxLoopTurns == 1
MaxApprovalTurns == 1
MaxApprovalCalls == 1

\* The turn loop with every kind of tool batch
Next ==
    \/ \E text \in UserInputs : UserInput(text, MaxTurns) /\ agentFrame
    \/ \E out \in CompactionOutcomes : CompactStep(out) /\ agentFrame
    \/ \E kind \in {"LLM request failed", "stream error"} : StreamError(kind) /\ agentFrame
    \/ \E resp \in LLMResponses : StreamStep(resp, MaxLLMCallsPerTurn) /\ agentFrame
    \/ \E i \in 1..Len(calls) : ToolTask(i) /\ agentFrame
    \/ SeqStep /\ agentFrame
    \/ \E approved \in BOOLEAN : ConfirmStep(approved) /\ agentFrame
    \/ ReturnResults /\ agentFrame
    \/ Interrupt /\ agentFrame
    \/ \E turn \in 1..Len(checkpoints) : RewindCode(turn) /\ agentFrame
    \/ \E turn \in 1..Len(checkpoints) : RewindConversation(turn) /\ agentFrame
    \/ \E turn \in 1..Len(checkpoints) : RewindAll(turn) /\ agentFrame
    \/ \E out \in CompactionOutcomes : Compact(out) /\ agentFrame
    \/ Clear /\ agentFrame

\* Several turns of file writes, with rewinds and compactions between them
NextRewind ==
    \/ \E text \in UserInputs : UserInput(text, MaxRewindTurns) /\ agentFrame
    \/ \E out \in CompactionOutcomes : CompactStep(out) /\ agentFrame
    \/ \E resp \in StopResponses \cup WriteResponses : StreamStep(resp, MaxRewindCalls) /\ agentFrame
    \/ SeqStep /\ agentFrame
    \/ \E approved \in BOOLEAN : ConfirmStep(approved) /\ agentFrame
    \/ ReturnResults /\ agentFrame
    \/ \E turn \in 1..Len(checkpoints) : RewindCode(turn) /\ agentFrame
    \/ \E turn \in 1..Len(checkpoints) : RewindConversation(turn) /\ agentFrame
    \/ \E turn \in 1..Len(checkpoints) : RewindAll(turn) /\ agentFrame
    \/ \E out \in CompactionOutcomes : Compact(out) /\ agentFrame

\* Several turns of reads, with conversation rewinds and compactions between them
NextHistory ==
    \/ \E text \in UserInputs : UserInput(text, MaxHistoryTurns) /\ agentFrame
    \/ StreamError("LLM request failed") /\ agentFrame
    \/ \E resp \in {Response("stop", <<"done">>, <<>>, 0)} \cup ReadResponses :
           StreamStep(resp, MaxHistoryCalls) /\ agentFrame
    \/ SeqStep /\ agentFrame
    \/ ReturnResults /\ agentFrame
    \/ \E turn \in 1..Len(checkpoints) : RewindConversation(turn) /\ agentFrame
    \/ Compact("summary") /\ agentFrame

\* One turn in which the LLM answers every request with a tool call
NextLoop ==
    \/ \E text \in UserInputs : UserInput(text, MaxLoopTurns) /\ agentFrame
    \/ \E resp \in ReadResponses : StreamStep(resp, MaxIterationsPerTurn + 1) /\ agentFrame
    \/ SeqStep /\ agentFrame
    \/ ReturnResults /\ agentFrame

\* The responses that end the turn or hold a call that is not read-only
ApprovalResponses ==
    {r \in LLMResponses :
        /\ r.usage = 0
        /\ \/ r.finish = "stop"
           \/ \E i \in 1..Len(r.batch) : ~IsReadOnly(r.batch[i].name)}

\* Turns whose batches take the sequential path, with confirmations and code rewinds
NextApproval ==
    \/ \E text \in UserInputs : UserInput(text, MaxApprovalTurns) /\ agentFrame
    \/ \E resp \in ApprovalResponses : StreamStep(resp, MaxApprovalCalls) /\ agentFrame
    \/ SeqStep /\ agentFrame
    \/ \E approved \in BOOLEAN : ConfirmStep(approved) /\ agentFrame
    \/ ReturnResults /\ agentFrame
    \/ Interrupt /\ agentFrame
    \/ \E turn \in 1..Len(checkpoints) : RewindCode(turn) /\ agentFrame
    \/ \E turn \in 1..Len(checkpoints) : RewindAll(turn) /\ agentFrame

\* Turns of reads with every command that replaces or cuts the history between them
MaxLifeTurns == 2
MaxLifeCalls == 2
NextLife ==
    \/ \E text \in UserInputs : UserInput(text, MaxLifeTurns) /\ agentFrame
    \/ \E out \in CompactionOutcomes : CompactStep(out) /\ agentFrame
    \/ \E resp \in StopResponses \cup ReadResponses : StreamStep(resp, MaxLifeCalls) /\ agentFrame
    \/ SeqStep /\ agentFrame
    \/ ReturnResults /\ agentFrame
    \/ \E turn \in 1..Len(checkpoints) : RewindConversation(turn) /\ agentFrame
    \/ \E turn \in 1..Len(checkpoints), out \in CompactionOutcomes : SummarizeFrom(turn, out) /\ agentFrame
    \/ \E out \in CompactionOutcomes : Compact(out) /\ agentFrame
    \/ Clear /\ agentFrame
    \/ \E saved \in SavedSessions : ResumeSessionAgent(saved) /\ agentFrame

\* A session is resumed, turns write files, and the code is rewound
MaxResumeTurns == 1
MaxResumeCalls == 2
NextResume ==
    \/ \E saved \in SavedSessions : ResumeSessionAgent(saved) /\ agentFrame
    \/ \E text \in UserInputs : UserInput(text, MaxResumeTurns) /\ agentFrame
    \/ \E resp \in {Response("stop", <<"done">>, <<>>, 0)} \cup WriteResponses :
           StreamStep(resp, MaxResumeCalls) /\ agentFrame
    \/ SeqStep /\ agentFrame
    \/ \E approved \in BOOLEAN : ConfirmStep(approved) /\ agentFrame
    \/ ReturnResults /\ agentFrame
    \/ \E turn \in 1..Len(checkpoints) : RewindCode(turn) /\ agentFrame
    \/ \E turn \in 1..Len(checkpoints) : RewindAll(turn) /\ agentFrame

\* A history is built, saved, and resumed into a fresh agent
MaxSessionLen == 3
NextSession ==
    \/ \E m \in SessionMessages : AppendMessage(m, MaxSessionLen) /\ sessionFrame
    \/ SaveSession /\ sessionFrame
    \/ ResumeSession /\ sessionFrame

\* Turns whose responses report a usage above the threshold, with /compact and /clear
MaxCompactTurns == 2
MaxCompactCalls == 2
NextCompact ==
    \/ \E text \in UserInputs : UserInput(text, MaxCompactTurns) /\ agentFrame
    \/ \E out \in CompactionOutcomes : CompactStep(out) /\ agentFrame
    \/ \E resp \in StopResponses \cup LargeResponses : StreamStep(resp, MaxCompactCalls) /\ agentFrame
    \/ SeqStep /\ agentFrame
    \/ ReturnResults /\ agentFrame
    \/ \E out \in CompactionOutcomes : Compact(out) /\ agentFrame
    \/ Clear /\ agentFrame

\* Turns whose batches take the parallel or the sequential path
MaxDispatchTurns == 1
MaxDispatchCalls == 2
NextDispatch ==
    \/ \E text \in UserInputs : UserInput(text, MaxDispatchTurns) /\ agentFrame
    \/ \E resp \in StopResponses \cup BatchResponses : StreamStep(resp, MaxDispatchCalls) /\ agentFrame
    \/ \E i \in 1..Len(calls) : ToolTask(i) /\ agentFrame
    \/ SeqStep /\ agentFrame
    \/ \E approved \in BOOLEAN : ConfirmStep(approved) /\ agentFrame
    \/ ReturnResults /\ agentFrame

\* At most MaxWrites calls of AtomicWrite on one target, any step of which may fail
NextWrite ==
    \/ \E content \in WriteContents, perm \in Perms, cause \in SyscallErrors \cup {""} :
           CreateTemp(content, perm, cause) /\ writeFrame
    \/ \E cause \in SyscallErrors \cup {""} : WriteTemp(cause) /\ writeFrame
    \/ \E cause \in SyscallErrors \cup {""} : CloseTemp(cause) /\ writeFrame
    \/ \E cause \in SyscallErrors \cup {""} : Chmod(cause) /\ writeFrame
    \/ \E cause \in SyscallErrors \cup {""} : Rename(cause) /\ writeFrame

\* The process for MaxClock seconds, with at most MaxSignals interrupts
NextSignal ==
    \/ Tick /\ signalFrame
    \/ Notify /\ signalFrame
    \/ HandleSignal /\ signalFrame
    \/ StartTurn /\ signalFrame
    \/ EndTurn /\ signalFrame

\* One turn with at most MaxConfirms confirmations and MaxTyped bytes typed
NextListener ==
    \/ \E ch \in RawKeys : TypeKey(ch) /\ listenerFrame
    \/ \E answer \in Answers : TypeLine(answer) /\ listenerFrame
    \/ LoopPoll /\ listenerFrame
    \/ LoopRead /\ listenerFrame
    \/ LoopCheck /\ listenerFrame
    \/ Pause /\ listenerFrame
    \/ ScanByte /\ listenerFrame
    \/ Resume /\ listenerFrame
    \/ Stop /\ listenerFrame
    \/ StopReturns /\ listenerFrame

\* The input loop for at most MaxReplTurns turns
NextRepl ==
    \/ \E input \in ReplInputs, failure \in SaveFailures : ReadInput(input, failure) /\ replFrame
    \/ \E err \in RunErrors, grown \in 1..2 : RunReturns(err, grown) /\ replFrame
    \/ \E failure \in SaveFailures : FinishTurn(failure) /\ replFrame

\* One call of runExplore
NextExplore ==
    \/ \E resp \in ExploreResponses : ExploreSend(resp) /\ exploreFrame
    \/ \E i \in 1..Len(eCalls) : ExploreToolTask(i) /\ exploreFrame
    \/ ExploreCollect /\ exploreFrame

\* One call of AccumulateStream on a stream of at most MaxStreamEvents events
MaxStreamEvents == 4
NextStream ==
    \/ \E event \in StreamEvents : Receive(event, MaxStreamEvents) /\ streamFrame
    \/ ChannelClosed /\ streamFrame

\* One call of compactIfNeeded on a chosen window, usage and history
NextGate ==
    \/ \E w \in ContextWindows, u \in ReportedUsages, ms \in GateHistories : GateInput(w, u, ms) /\ gateFrame
    \/ \E out \in CompactionOutcomes : CompactIfNeeded(out) /\ gateFrame

Spec == Init /\ [][Next]_vars
SpecGate == Init /\ [][NextGate]_vars
SpecExplore == Init /\ [][NextExplore]_vars
SpecWrite == Init /\ [][NextWrite]_vars
SpecSignal == Init /\ [][NextSignal]_vars
SpecResume == Init /\ [][NextResume]_vars
SpecLife == Init /\ [][NextLife]_vars
SpecRepl == Init /\ [][NextRepl]_vars
SpecListener == Init /\ [][NextListener]_vars
\* The two goroutines are scheduled; the user need not type
SpecListenerFair ==
    /\ SpecListener
    /\ WF_vars(LoopPoll /\ listenerFrame) /\ WF_vars(LoopRead /\ listenerFrame)
    /\ WF_vars(LoopCheck /\ listenerFrame) /\ WF_vars(StopReturns /\ listenerFrame)
    /\ WF_vars(Resume /\ listenerFrame) /\ WF_vars(ScanByte /\ listenerFrame)
SpecDispatch == Init /\ [][NextDispatch]_vars
SpecStream == Init /\ [][NextStream]_vars
SpecCompact == Init /\ [][NextCompact]_vars
SpecSession == Init /\ [][NextSession]_vars
SpecApproval == Init /\ [][NextApproval]_vars
SpecRewind == Init /\ [][NextRewind]_vars
SpecHistory == Init /\ [][NextHistory]_vars
SpecLoop == Init /\ [][NextLoop]_vars
SpecRetry == Init /\ [][NextRetry]_vars
SpecPath == Init /\ [][NextPath]_vars

(***************************************************************************)
(* Properties                                                              *)
(***************************************************************************)

\* C6: Path confinement.  For every requested path, ValidatePath either
\* rejects it or returns a path whose location relative to the working
\* directory does not begin with ".."; "../..." paths, absolute paths outside
\* the working directory and paths that leave it through a symbolic link are
\* rejected.
PathConfinement ==
    vpPhase = "validated" =>
        /\ vpRes.ok => ~HasDotDotPrefix(Rel(WorkDir, vpRes.path))
        /\ (~vpReq.abs /\ HasDotDotPrefix(Clean(vpReq).parts)) => ~vpRes.ok
        /\ (vpReq.abs /\ ~IsWithin(WorkDir, Clean(vpReq))) => ~vpRes.ok
        /\ vpRes.ok => IsWithin(WorkDir, RealPath(vpRes.path))

\* C9: Retry-After is one-shot.  After a 429 response with Retry-After: R the
\* wait before the next attempt is at least R; after a 429 response without
\* the header the wait is the schedule's delay for that attempt, computed
\* from the configured base delay and not from an earlier R.
RetryAfterOneShot ==
    (rPhase = "request" /\ attempt > 0 /\ lastResp.status = 429) =>
        /\ parseRetryAfter(lastResp) > 0 => waited.delay >= parseRetryAfter(lastResp)
        /\ lastResp.header = <<>> =>
               waited.delay = backoffDelay(attempt - 1, cfgBaseDelay, maxDelay, waited.jitter)

\* C10: Retry envelope.  While every response so far was transient and at most
\* maxRetries of them were received, doWithRetry has not given up, and a 2xx
\* response that follows is returned as success; after maxRetries + 1
\* transient responses it has made exactly maxRetries + 1 attempts and returns
\* a retryable error with the status of the last response.
RetryEnvelope ==
    /\ requests <= maxRetries + 1
    /\ (allTransient /\ requests <= maxRetries) =>
           rOutcome.kind \in {"none", "cancelled", "retryCancelled"}
    /\ (lastResp.kind = "http" /\ lastResp.status >= 200 /\ lastResp.status < 300) =>
           rOutcome = [kind |-> "success", status |-> lastResp.status, attempt |-> requests - 1]
    /\ (allTransient /\ requests = maxRetries + 1) =>
           rOutcome = [kind |-> "retryable", status |-> lastResp.status, attempt |-> maxRetries]
    /\ rOutcome.kind = "retryable" => (requests = maxRetries + 1 /\ rOutcome.status = lastResp.status)

\* maxRetries transient responses, the last one a 500 after 429s, then the give-up
RetryEnvelopeWitness ==
    /\ rOutcome.kind = "retryable"
    /\ rOutcome.status = 500
    /\ requests = maxRetries + 1
    /\ lastStatus = 500

\* The messages a step appended to the history
Appended == SubSeq(History(messages'), messages.len + 1, messages'.len)

\* C1: Tool-result ordering.  When executeToolCalls returns for an assistant
\* message with tool calls c_1..c_k, the history is left as it was and gains
\* exactly k tool-role messages whose ids are c_1..c_k in that order: no
\* result is re-ordered, merged or omitted, on the sequential and on the
\* parallel path.
ToolResultOrdering ==
    [][ReturnResults =>
          /\ History(messages)[messages.len].calls = calls
          /\ SubSeq(History(messages'), 1, messages.len) = History(messages)
          /\ Len(Appended) = Len(calls)
          /\ \A i \in 1..Len(calls) : Appended[i].role = "tool" /\ Appended[i].id = calls[i].id]_vars

\* Every tool-role message follows an assistant message, and the nearest one
\* before it holds a tool call with the message's tool_call_id
WellFormed(ms) ==
    \A i \in 1..Len(ms) :
        ms[i].role = "tool" =>
            \E j \in 1..(i - 1) :
                /\ ms[j].role = "assistant"
                /\ \A k \in (j + 1)..(i - 1) : ms[k].role # "assistant"
                /\ \E c \in 1..Len(ms[j].calls) : ms[j].calls[c].id = ms[i].id

\* C2: History well-formedness.  After any turn, however it ended, every
\* tool-role message of the history is preceded by an assistant message, and
\* the nearest prior assistant message contains a tool call with its id.
HistoryWellFormed == [][(pc # "idle" /\ pc' = "idle") => WellFormed(History(messages'))]_vars

\* What a read-only call returns when run on the state the batch was dispatched in
IsolatedOutput(tc) ==
    IF ~JSONValid(tc.arguments) THEN InvalidJSONError(tc.arguments)
    ELSE ErrorOutput(Execute(tc.name, tc.arguments, disk, tasksAtDispatch, FALSE))

\* C3: Parallel-safe equivalence.  A batch of k > 1 read-only calls runs as
\* concurrent tasks; no result is appended before all of them are joined; and
\* each result is what the call yields on the state of the dispatch, so that
\* the history is the same for every order in which the tasks complete.
ParallelEquivalence ==
    /\ (calls # <<>> /\ AllReadOnly(calls) /\ Len(calls) > 1) => pc = "par"
    /\ pc = "par" =>
          /\ History(messages)[messages.len].calls = calls
          /\ ~cancelled => \A i \in done : results[i].output = IsolatedOutput(calls[i])

\* C4: Approval gating.  A handler step changes neither the disk nor the
\* shell nor the task list; these change only in the step that follows the
\* user's approval (or in a code rewind); on denial the closure does not run,
\* nothing changes and the result is "User denied the operation.".
ApprovalGating ==
    [][/\ (SeqStep \/ \E i \in 1..Len(calls) : ToolTask(i)) =>
              (disk' = disk /\ shellRuns' = shellRuns /\ fileOriginals' = fileOriginals)
       /\ (SeqStep /\ JSONValid(calls[pos].arguments) /\ calls[pos].name \in {"write", "edit", "bash"}
              /\ Execute(calls[pos].name, calls[pos].arguments, disk, tasks, cancelled).confirm = <<>>) =>
              results'[pos].output = "Error: " \o Execute(calls[pos].name, calls[pos].arguments, disk, tasks, cancelled).err
       /\ (disk' # disk \/ shellRuns' # shellRuns) =>
              \/ ConfirmStep(TRUE)
              \/ \E turn \in 1..Len(checkpoints) : RewindCode(turn) \/ RewindAll(turn)
       /\ ConfirmStep(FALSE) =>
              /\ disk' = disk /\ shellRuns' = shellRuns /\ tasks' = tasks
              /\ fileOriginals' = fileOriginals
              /\ results'[pos].output = "User denied the operation."]_vars

\* An edit was denied and a later bash of the batch approved: the file is as it was, the shell ran
ApprovalGatingWitness ==
    /\ pc = "seq"
    /\ pos = 4
    /\ calls[1].name = "edit"
    /\ results[1].output = "User denied the operation."
    /\ disk = InitialDisk
    /\ shellRuns = 1

\* C5: Checkpoint round-trip.  With a later checkpoint present, RewindAll(t)
\* completes, leaves the history with the length it had when checkpoint t was
\* created, and leaves every file with the bytes it had then, files created
\* since being removed.
CheckpointRoundTrip ==
    [][\A turn \in 1..(Len(checkpoints) - 1) :
          RewindAll(turn) =>
              /\ pc' # "crashed"
              /\ messages'.len = checkpoints[turn].MsgIndex
              /\ disk' = diskAt[turn]]_vars

\* C7: Cancellation after tool dispatch.  When executeToolCalls returns in a
\* cancelled turn, every collected result is appended to the history with
\* its tool-call id, in call order, and the turn returns the cancelled outcome.
CancelKeepsResults ==
    [][(ReturnResults /\ cancelled) =>
          /\ Appended = [i \in 1..Len(calls) |-> ToolResultMessage(calls[i].id, results[i].output)]
          /\ pc' = "idle"
          /\ outcome' = "context canceled"]_vars

NonRetryableStatuses ==
    (lastResp.kind = "http" /\ lastResp.status \in 400..499 /\ lastResp.status # 429) =>
        /\ rPhase = "done"
        /\ rOutcome = [kind |-> IF lastResp.status \in {401, 403} THEN "auth" ELSE "api",
                       status |-> lastResp.status, attempt |-> requests - 1]

\* A 403 that arrives on the third attempt, after two transient responses
NonRetryableStatusesWitness ==
    /\ rOutcome = [kind |-> "auth", status |-> 403, attempt |-> 2]
    /\ requests = 3
    /\ lastStatus = 500

SessionResumeEquivalence ==
    sPhase = "resumed" => Tail(sResumed) = Tail(sMessages)

\* The tokens compactIfNeeded compares with the threshold
GateCurrent == IF gUsed # 0 THEN gUsed ELSE EstimateTotalTokens(History(gMessages))

\* C16: Compaction gate.  compactIfNeeded runs doCompact exactly when current
\* exceeds 80% of the context window, current being lastTokensUsed if non-zero
\* and the token estimate otherwise; at or below the threshold it makes no
\* summarization call and leaves the history as it was.
CompactionGate ==
    gPhase = "returned" =>
        /\ (gSends = 1) <=> (5 * GateCurrent > 4 * gWindow)
        /\ gSends \in {0, 1}
        /\ (5 * GateCurrent <= 4 * gWindow) => (gSends = 0 /\ gAfter = gMessages)

\* C14 as stated: after every doCompact, called by compactIfNeeded or by /compact,
\* the history holds at most 3 messages and starts with the system message
CompactionMonotonicity ==
    [][\A out \in CompactionOutcomes :
          (CompactStep(out) \/ Compact(out)) =>
              /\ messages'.len <= 3
              /\ History(messages')[1] = TextMessage("system", SystemPrompt)]_vars

\* C14 amended: after every doCompact whose summarization call succeeded the
\* history holds at most 3 messages and starts with the system message the
\* history started with before
CompactionMonotonicityOnSuccess ==
    [][\A out \in CompactionOutcomes \ {"error"} :
          (CompactStep(out) \/ Compact(out)) =>
              /\ messages'.len <= 3
              /\ History(messages')[1] = History(messages)[1]
              /\ History(messages')[1] = TextMessage("system", SystemPrompt)]_vars

\* A history of four messages was compacted within a turn into the system
\* message, the summary and the last user message
CompactionMonotonicityWitness ==
    /\ sendCalled
    /\ pc = "stream"
    /\ iteration > 0
    /\ lastTokensUsed = 0
    /\ messages.len = 3
    /\ History(messages)[2] = TextMessage("user", "[Conversation compacted] Here is a summary of our conversation so far:\n\nsummary")

\* C15: a doCompact whose summarization call fails leaves the history, the
\* token count and the checkpoints as they were, and the turn goes on to the
\* stream call
CompactionBestEffort ==
    [][/\ CompactStep("error") =>
              /\ messages' = messages
              /\ lastTokensUsed' = lastTokensUsed
              /\ checkpoints' = checkpoints
              /\ pc' = "stream"
              /\ outcome' = outcome
       /\ Compact("error") =>
              /\ messages' = messages
              /\ lastTokensUsed' = lastTokensUsed
              /\ checkpoints' = checkpoints
              /\ pc' = "idle"]_vars

\* The summarization call failed within a turn: the four messages and the
\* reported usage are still there and the loop is about to stream
CompactionBestEffortWitness ==
    /\ sendCalled
    /\ pc = "stream"
    /\ iteration > 0
    /\ messages.len = 4
    /\ lastTokensUsed > Threshold

\* C17: RewindConversation(turn) leaves the first MsgIndex messages of the
\* history, MsgIndex being the one recorded by checkpoint turn, leaves exactly
\* the checkpoints before turn, and zeroes lastTokensUsed
RewindConversationTruncates ==
    [][\A turn \in 1..Len(checkpoints) :
          RewindConversation(turn) =>
              /\ checkpoints[turn].MsgIndex <= messages.len
              /\ History(messages') = SubSeq(History(messages), 1, checkpoints[turn].MsgIndex)
              /\ checkpoints' = SubSeq(checkpoints, 1, turn - 1)
              /\ lastTokensUsed' = 0]_vars

\* C18: when an approved write or edit runs its closure, the path of the
\* confirmation is the file the closure writes, the path has an entry in
\* fileOriginals afterwards, and an entry made by this step holds what the file
\* was before the closure ran
CaptureBeforeExecute ==
    [][(ConfirmStep(TRUE) /\ confirm[1].Tool \in {"write", "edit"}) =>
          LET c == confirm[1]
              before == ReadFile(disk, c.Execute.file)
          IN  /\ FileOf(c.Path) = c.Execute.file
              /\ fileOriginals'[c.Path] # NotInMap
              /\ fileOriginals[c.Path] = NotInMap =>
                     fileOriginals'[c.Path] = InMap([Existed |-> before # <<>>, Content |-> before])
              /\ fileOriginals[c.Path] # NotInMap => fileOriginals'[c.Path] = fileOriginals[c.Path]]_vars

\* An approved write created a.txt, and the recorded original says that the
\* file did not exist
CaptureBeforeExecuteWitness ==
    /\ pc = "seq"
    /\ pos = 2
    /\ results[1].output = "Successfully wrote a.txt"
    /\ ReadFile(disk, FileA) # <<>>
    /\ fileOriginals["a.txt"] = InMap([Existed |-> FALSE, Content |-> <<>>])

\* C19: whatever turns, checkpoints, writes and rewinds have happened, the
\* original recorded for a path is the state the path had when the session began
CaptureKeepsBaseline ==
    \A p \in PathStrings :
        fileOriginals[p] # NotInMap =>
            fileOriginals[p] = InMap([Existed |-> ReadFile(InitialDisk, FileOf(p)) # <<>>,
                                      Content |-> ReadFile(InitialDisk, FileOf(p))])

RECURSIVE AllDeltas(_)
AllDeltas(events) ==
    IF events = <<>> THEN <<>> ELSE Head(events).ToolCallDeltas \o AllDeltas(Tail(events))

\* The concatenation, in delivery order, of the argument fragments for index i
RECURSIVE Concatenation(_, _)
Concatenation(ds, i) ==
    IF ds = <<>> THEN ""
    ELSE (IF Head(ds).Index = i THEN Head(ds).Arguments ELSE "") \o Concatenation(Tail(ds), i)

\* The first and the last non-empty id (field = "ID") or name (field = "Name")
\* delivered for index i, "" if there is none
RECURSIVE FirstNonEmpty(_, _, _)
FirstNonEmpty(ds, i, field) ==
    IF ds = <<>> THEN ""
    ELSE IF Head(ds).Index = i /\ Head(ds)[field] # "" THEN Head(ds)[field]
    ELSE FirstNonEmpty(Tail(ds), i, field)

RECURSIVE LastNonEmpty(_, _, _)
LastNonEmpty(ds, i, field) ==
    IF ds = <<>> THEN ""
    ELSE IF ds[Len(ds)].Index = i /\ ds[Len(ds)][field] # "" THEN ds[Len(ds)][field]
    ELSE LastNonEmpty(SubSeq(ds, 1, Len(ds) - 1), i, field)

\* C21: at every point of the accumulation the arguments accumulated for an
\* index are the concatenation, in delivery order, of the fragments delivered
\* for that index, whatever deltas of other indices came between them; and
\* every call of the returned response carries the string accumulated for it
ArgumentsConcatenated ==
    /\ \A i \in Indices :
           aToolCalls[i] # NotInMap =>
               aToolCalls[i][1].Arguments = Concatenation(AllDeltas(aEvents), i)
    /\ aPhase = "returned" =>
           \A k \in 1..Len(aResp[1].ToolCalls) :
               \E i \in Indices :
                   /\ aToolCalls[i] # NotInMap
                   /\ aResp[1].ToolCalls[k] = aToolCalls[i][1]
                   /\ aResp[1].ToolCalls[k].Arguments = Concatenation(AllDeltas(aEvents), i)

\* The two fragments of call 0 arrived with a delta of call 1 between them, and
\* the response holds their concatenation
ArgumentsConcatenatedWitness ==
    /\ aPhase = "returned"
    /\ Len(aEvents) = 3
    /\ aEvents[1].ToolCallDeltas = <<Delta(0, "", "", "{p")>>
    /\ aEvents[2].ToolCallDeltas = <<Delta(1, "call_c", "grep", "{r}")>>
    /\ aEvents[3].ToolCallDeltas = <<Delta(0, "", "", "q}")>>
    /\ Len(aResp[1].ToolCalls) = 2
    /\ aResp[1].ToolCalls[1].Arguments = "{pq}"
    /\ aResp[1].ToolCalls[2].Arguments = "{r}"

\* C22 as stated: the id and the name accumulated for an index are the first
\* non-empty id and the first non-empty name delivered for it
IdNameSetOnce ==
    \A i \in Indices :
        aToolCalls[i] # NotInMap =>
            /\ aToolCalls[i][1].ID = FirstNonEmpty(AllDeltas(aEvents), i, "ID")
            /\ aToolCalls[i][1].Name = FirstNonEmpty(AllDeltas(aEvents), i, "Name")

\* C22 amended: the id and the name accumulated for an index are the last
\* non-empty id and the last non-empty name delivered for it (a delta with an
\* empty id or name changes neither), and the calls of the returned response
\* carry them
IdNameLastWins ==
    /\ \A i \in Indices :
           aToolCalls[i] # NotInMap =>
               /\ aToolCalls[i][1].ID = LastNonEmpty(AllDeltas(aEvents), i, "ID")
               /\ aToolCalls[i][1].Name = LastNonEmpty(AllDeltas(aEvents), i, "Name")
    /\ aPhase = "returned" =>
           \A k \in 1..Len(aResp[1].ToolCalls) :
               \E i \in Indices :
                   /\ aToolCalls[i] # NotInMap
                   /\ aResp[1].ToolCalls[k].ID = LastNonEmpty(AllDeltas(aEvents), i, "ID")
                   /\ aResp[1].ToolCalls[k].Name = LastNonEmpty(AllDeltas(aEvents), i, "Name")

\* Index 0 received the id call_a and the name glob, then fragments, then the
\* id call_b and the name grep: the response holds call_b and grep
IdNameLastWinsWitness ==
    /\ aPhase = "returned"
    /\ Len(aEvents) = 3
    /\ aEvents[1].ToolCallDeltas = <<Delta(0, "call_a", "glob", "")>>
    /\ aEvents[2].ToolCallDeltas = <<Delta(0, "", "", "{p")>>
    /\ aEvents[3].ToolCallDeltas = <<Delta(0, "call_b", "grep", "")>>
    /\ aResp[1].ToolCalls = <<[ID |-> "call_b", Name |-> "grep", Arguments |-> "{p"]>>

\* The usage and the finish reason of the last event that carries one
RECURSIVE FinalUsage(_)
FinalUsage(events) ==
    IF events = <<>> THEN ZeroUsage
    ELSE IF events[Len(events)].Usage # <<>> THEN events[Len(events)].Usage[1]
    ELSE FinalUsage(SubSeq(events, 1, Len(events) - 1))

RECURSIVE FinalFinishReason(_)
FinalFinishReason(events) ==
    IF events = <<>> THEN ""
    ELSE IF events[Len(events)].FinishReason # "" THEN events[Len(events)].FinishReason
    ELSE FinalFinishReason(SubSeq(events, 1, Len(events) - 1))

\* C23: the returned response holds the usage and the finish reason of the
\* last event that carried them, the event that signals Done included
FinalUsageAndFinishCaptured ==
    aPhase = "returned" =>
        /\ aResp[1].Usage = FinalUsage(aEvents)
        /\ aResp[1].FinishReason = FinalFinishReason(aEvents)

\* The names the registry knows, and one it does not
ReadOnlyNames == {"glob", "grep", "ls", "read", "explore", "read_tasks", "update_task"}
ConfirmingNames == {"write", "edit", "bash", "write_tasks"}

ExpectedError(tc) ==
    IF tc.arguments = "{task:look," THEN "Error: invalid JSON in tool arguments: {task:look,"
    ELSE IF tc.name = "grep_all" THEN "Error: unknown tool: grep_all"
    ELSE IF tc.name = "write" /\ tc.arguments = "{path:../x,content:v1}"
         THEN "Error: path is outside the working directory"
    ELSE IF tc.name = "read" /\ tc.arguments = "{path:a.txt}" /\ ReadFile(disk, FileA) = <<>>
         THEN "Error: open file"
    ELSE ""

\* C25: when executeToolCalls returns, every call of the batch has its result,
\* a call that failed at tool level has the result "Error: ..." of its
\* failure, and unless the turn was cancelled Run appends all the results and
\* goes on to the next LLM call
ToolErrorsReported ==
    [][ReturnResults =>
          /\ \A i \in 1..Len(calls) :
                 /\ results[i].id = calls[i].id
                 /\ ExpectedError(calls[i]) # "" => results[i].output = ExpectedError(calls[i])
          /\ (~cancelled /\ LoopTest(iteration + 1)) =>
                 /\ pc' \in {"stream", "compact"}
                 /\ outcome' = "none"
                 /\ SubSeq(History(messages'), messages.len + 1, messages'.len) = ResultMessages(results)]_vars

\* A batch with a rejected path and an unknown tool was reported to the model,
\* and the next LLM call has been made
ToolErrorsReportedWitness ==
    /\ llmCalls = 2
    /\ \E k \in 1..messages.len :
           /\ History(messages)[k].role = "tool"
           /\ History(messages)[k].content = <<"Error: path is outside the working directory">>
    /\ \E k \in 1..messages.len :
           /\ History(messages)[k].role = "tool"
           /\ History(messages)[k].content = <<"Error: unknown tool: grep_all">>

\* C26: whatever calls the sub-agent's LLM issues, the registry raises no
\* confirmation, no file changes, no shell command runs, and a write, edit or
\* bash call gets the result of an unknown tool
ExploreIsReadOnly ==
    /\ eConfirms = 0
    /\ confirm = NoConfirm
    /\ disk = InitialDisk
    /\ shellRuns = 0
    /\ \A i \in eDone :
           eCalls[i].name \in {"write", "edit", "bash"} =>
               eOutputs[i] = "Error: unknown tool: " \o eCalls[i].name

\* The sub-agent's LLM asked for a write and a shell command, and both calls
\* have been answered
ExploreIsReadOnlyWitness ==
    /\ ePhase = "tools"
    /\ eDone = {1, 2}
    /\ eCalls[1].name = "write"
    /\ eCalls[2].name = "bash"
    /\ eOutputs = <<"Error: unknown tool: write", "Error: unknown tool: bash">>

\* C27: runExplore calls SendMessage at most 30 times; when the latest
\* response has no tool calls its text is the result, and when the loop ends
\* after a response with tool calls, that was the 30th response, every response
\* carried tool calls, and the result is the fixed message, without an error
ExploreBounded ==
    /\ eSends <= 30
    /\ ePhase = "returned" =>
           /\ (eLast.err = "" /\ eLast.batch = <<>>) =>
                  eResult = <<[output |-> IF eLast.content = <<>> THEN "" ELSE eLast.content[1], err |-> ""]>>
           /\ (eLast.err = "" /\ eLast.batch # <<>>) =>
                  /\ eSends = 30
                  /\ eIteration = 30
                  /\ eResult = <<[output |-> "Explore sub-agent reached maximum iterations without completing.",
                                   err |-> ""]>>

\* Thirty responses with tool calls: the fixed message is returned
ExploreBoundedWitness ==
    /\ ePhase = "returned"
    /\ eSends = 30
    /\ eLast.batch # <<>>
    /\ eResult[1].output = "Explore sub-agent reached maximum iterations without completing."

SecondInterruptExits ==
    [][HandleSignal =>
          /\ runCancel => (runCtxDone' /\ ~exited')
          /\ (/\ sigLog # <<>>
              /\ sigLog[Len(sigLog)] = "cancel"
              /\ now - lastInterrupt[1] < 2) => exited']_vars

\* What the goroutine does: an interrupt received while a turn runs cancels
\* that turn and does not exit the process; an interrupt received while no turn
\* runs exits the process exactly when it comes less than 2 seconds after the
\* previous interrupt
InterruptCancelsOrExits ==
    [][HandleSignal =>
          IF runCancel
          THEN runCtxDone' /\ ~exited'
          ELSE /\ exited' <=> (lastInterrupt # <<>> /\ now - lastInterrupt[1] < 2)
               /\ UNCHANGED runCtxDone]_vars

\* The first interrupt cancelled the turn, the turn ended, and a second
\* interrupt one second after the first exited the process
InterruptCancelsOrExitsWitness ==
    /\ sigLog = <<"cancel", "exit">>
    /\ exited
    /\ runCtxDone
    /\ now = 1

\* C30: a checkpoint reconstructed at resume holds no file, and a code rewind
\* (alone or with the conversation) to such a checkpoint leaves every file as
\* it is
ResumedRewindTouchesNoFile ==
    [][\A turn \in 1..Len(checkpoints) :
           checkpoints[turn].Preview = SavedRequest =>
               /\ Keys(checkpoints[turn].Files) = {}
               /\ (RewindCode(turn) \/ RewindAll(turn)) => disk' = disk]_vars

\* C31: the history starts with the system prompt and holds no other message
\* of role system
SystemPromptFirst ==
    /\ messages.len >= 1
    /\ History(messages)[1] = TextMessage("system", SystemPrompt)
    /\ \A i \in 2..messages.len : History(messages)[i].role # "system"

\* A session was resumed, a turn was run, the history was compacted, and the
\* conversation was cut back to the checkpoint of that turn
SystemPromptFirstWitness ==
    /\ pc = "idle"
    /\ turns >= 1
    /\ messages.len = 3
    /\ History(messages)[3].content = <<"do it">>
    /\ History(messages)[2].content =
           <<"[Conversation compacted] Here is a summary of our conversation so far:\n\nsummary">>
    /\ Len(checkpoints) = 1
    /\ checkpoints[1].Preview = SavedRequest

\* C32: whatever ag.Run returned, the loop calls SaveSession once before it
\* prompts again; a save that succeeds leaves the history without the system
\* prompt in the file, a save that fails leaves the file as it was and adds
\* one warning to what the turn printed, and in both cases the loop goes on
SaveAtTurnEnd ==
    [][replPc = "returned" =>
          /\ replPc' = "prompt"
          /\ replSaves' = replSaves + 1
          /\ \/ /\ replFile' = <<replLen - 1>>
                /\ replPrinted' = RunReport(replErr)
             \/ /\ replFile' = replFile
                /\ \E failure \in SaveFailures \ {""} :
                       replPrinted' = Append(RunReport(replErr), "Session save failed: " \o failure)]_vars

\* A cancelled turn whose save failed, after a turn that was saved
SaveAtTurnEndWitness ==
    /\ replPc = "prompt"
    /\ replTurns = 2
    /\ replSaves = 2
    /\ replFile = <<1>>
    /\ replLen = 3
    /\ replPrinted = <<"Operation cancelled.", "Session save failed: rename">>

\* C36: once the turn is cancelled, no step of the tool batch opens a
\* confirmation prompt, and none changes a file or runs a shell command
NoPromptAfterCancel ==
    [][(cancelled /\ pc \in {"par", "seq", "confirm"}) =>
          /\ pc' = "confirm" => pc = "confirm"
          /\ disk' = disk
          /\ shellRuns' = shellRuns]_vars

\* C33: the listener is inactive and the terminal is out of raw mode from
\* Pause until ConfirmAction has returned; every Pause has its Resume, after
\* an approval and after a denial, before Run processes anything else
PausedDuringConfirmation ==
    /\ ilCaller \in {"scan", "resume"} => (~ilActive /\ ~ilRaw /\ pauses = resumes + 1)
    /\ ilCaller \in {"running", "stopping", "returned"} => pauses = resumes
    /\ ilCaller = "running" => (ilActive /\ ilRaw)

\* A denial and an approval, each followed by its Resume
PausedDuringConfirmationWitness ==
    /\ ilCaller = "running"
    /\ pauses = 2
    /\ resumes = 2
    /\ \E i, j \in 1..Len(ilApproved) : ilApproved[i] /\ ~ilApproved[j]

\* C37: readLoop reads no byte of an answer typed at the confirmation prompt
ListenerLeavesAnswer ==
    \A i \in 1..Len(ilTaken) : ilTaken[i] \notin Answers \cup {Newline}

\* C40, safety: when Stop has returned, readLoop has exited and raw mode is off
StoppedWhenReturned ==
    ilCaller = "returned" => (ilLoop = "exited" /\ ~ilRaw /\ ilCancelled)

\* C40, liveness: a Stop that was called returns
StopTerminates == (ilCaller = "stopping") ~> (ilCaller = "returned")

\* C34: the history, the checkpoints, fileOriginals and the task list belong
\* to the turn loop: a task of the parallel path leaves all four as they are
\* and its result does not depend on the task list
TurnLoopOwnsAgentState ==
    [][\A i \in 1..Len(calls) :
          ToolTask(i) =>
              /\ messages' = messages
              /\ checkpoints' = checkpoints
              /\ fileOriginals' = fileOriginals
              /\ tasks' = tasks
              /\ results'[i].output =
                     ErrorOutput(Execute(calls[i].name, calls[i].arguments, disk, <<>>, cancelled))]_vars

\* C35: whatever turns, compactions and conversation rewinds have happened,
\* the MsgIndex of every checkpoint is at most the length of the history
CheckpointsWithinHistory ==
    \A i \in 1..Len(checkpoints) : checkpoints[i].MsgIndex <= messages.len

\* C38: RewindCode(turn) leaves every file with the bytes it had when
\* checkpoint turn was created, files that did not exist then being removed,
\* whatever code rewinds were performed before
RewindCodeRestoresCheckpoint ==
    [][\A turn \in 1..Len(checkpoints) : RewindCode(turn) => disk' = diskAt[turn]]_vars

\* C39: fileOriginals holds at most one entry per file: two path strings that
\* both have an entry do not name the same file
OneOriginalPerFile ==
    \A p, q \in PathStrings :
        (fileOriginals[p] # NotInMap /\ fileOriginals[q] # NotInMap /\ FileOf(p) = FileOf(q)) => p = q

\* No usage was reported, the estimate of the history is above 80% of a window
\* of 500 tokens, and the history was compacted
CompactionGateWitness ==
    /\ gPhase = "returned"
    /\ gWindow = 500
    /\ gUsed = 0
    /\ gSends = 1
    /\ gMessages.len = 4
    /\ gAfter.len = 3

====
